---- MODULE Spec2Model ----
(***************************************************************************)
(* A model of the NLP-DBMS repository: the seed loader's percent-to-count  *)
(* conversion, the AI fallback parser, the HTTP query endpoint, the query  *)
(* executor and the rule-based parser's intent decision.                   *)
(*                                                                         *)
(* Each component has its own specification (SpecPct, SpecAI, SpecQuery,   *)
(* SpecExec, SpecParse).  All specifications share the variables below; a  *)
(* component that a specification does not exercise stays at its Idle      *)
(* value.                                                                  *)
(***************************************************************************)
EXTENDS Integers, Sequences, FiniteSets, TLC

VARIABLES
    pct,    \* db_loader.percentages_to_counts: inputs, position, result
    ai,     \* ai_fallback_parser.ai_fallback_parse_query_to_plan: one invocation
    ep,     \* main.query_endpoint: one request
    ex,     \* executor.execute_plan: one invocation
    pq,     \* nlp_parser.parse_query_to_plan: one invocation
    al,     \* nlp_parser._load_subject_aliases: the module globals and concurrent callers
    ld,     \* db_loader.convert_to_sql and write_sql_to_file: one run of the script
    ag      \* executor.compute_aggregates: one call

vars == <<pct, ai, ep, ex, pq, al, ld, ag>>

Idle == [pc |-> "idle"]

\* Python's None
None == "None"

RECURSIVE SumSeq(_)
SumSeq(s) == IF s = <<>> THEN 0 ELSE Head(s) + SumSeq(Tail(s))

(***************************************************************************)
(* db/tools/db_loader.py : percentages_to_counts                           *)
(*                                                                         *)
(* Percentages are whole percents.  raw[i] = p[i] * N / 100 is kept as the *)
(* exact numerator p[i] * N over 100: int(raw) is the quotient and the     *)
(* fractional part is the remainder over 100 (for these magnitudes the     *)
(* float division is exact enough that int() and the ordering of the       *)
(* fractional parts agree with the exact values).                          *)
(***************************************************************************)

\* The loader always passes the 12 letter-grade columns (A .. F).
NumGrades == 12

\* How many leading percentage columns vary; the remaining ones are blank (0.0).
VaryLen == 3

\* Largest graded enrollment tried.
MaxEnroll == 14

PctValues == {0, 33, 50, 100}

PctInputs ==
    { [i \in 1..NumGrades |-> IF i <= VaryLen THEN f[i] ELSE 0] :
        f \in [1..VaryLen -> PctValues] }

\* raw numerators: (p or 0.0) * graded_enrollment, over 100.0
RawNum(percentages, n) == [i \in 1..Len(percentages) |-> percentages[i] * n]

\* floors = [int(x) for x in raw]
Floors(percentages, n) == [i \in 1..Len(percentages) |-> RawNum(percentages, n)[i] \div 100]

\* fracs = [x - int(x) for x in raw]   (in hundredths)
Fracs(percentages, n) == [i \in 1..Len(percentages) |-> RawNum(percentages, n)[i] % 100]

\* indexed.sort(key=fracs, reverse=True): stable, largest fraction first.
SortDesc(fracs) ==
    LET n == Len(fracs)
        Before(j, i) == fracs[j] > fracs[i] \/ (fracs[j] = fracs[i] /\ j < i)
    IN [k \in 1..n |-> CHOOSE i \in 1..n : Cardinality({j \in 1..n : Before(j, i)}) = k - 1]

\* indexed.sort(key=fracs): stable, smallest fraction first.
SortAsc(fracs) ==
    LET n == Len(fracs)
        Before(j, i) == fracs[j] < fracs[i] \/ (fracs[j] = fracs[i] /\ j < i)
    IN [k \in 1..n |-> CHOOSE i \in 1..n : Cardinality({j \in 1..n : Before(j, i)}) = k - 1]

\* for i in indexed: if diff == 0: break; floors[i] += 1; diff -= 1
RECURSIVE AddLoop(_, _, _, _)
AddLoop(floors, indexed, k, diff) ==
    IF k > Len(indexed) \/ diff = 0 THEN floors
    ELSE AddLoop([floors EXCEPT ![indexed[k]] = @ + 1], indexed, k + 1, diff - 1)

\* for i in indexed: if diff == 0: break; if floors[i] > 0: floors[i] -= 1; diff += 1
RECURSIVE RemoveLoop(_, _, _, _)
RemoveLoop(floors, indexed, k, diff) ==
    IF k > Len(indexed) \/ diff = 0 THEN floors
    ELSE IF floors[indexed[k]] > 0
         THEN RemoveLoop([floors EXCEPT ![indexed[k]] = @ - 1], indexed, k + 1, diff + 1)
         ELSE RemoveLoop(floors, indexed, k + 1, diff)

percentages_to_counts(percentages, graded_enrollment) ==
    IF graded_enrollment <= 0 THEN [i \in 1..Len(percentages) |-> 0]
    ELSE LET floors == Floors(percentages, graded_enrollment)
             diff   == graded_enrollment - SumSeq(floors)
             fracs  == Fracs(percentages, graded_enrollment)
         IN IF diff = 0 THEN floors
            ELSE IF diff > 0
                 THEN AddLoop(floors, SortDesc(fracs), 1, diff)
                 ELSE RemoveLoop(floors, SortAsc(fracs), 1, diff)

InitPct ==
    /\ pct \in { [pc |-> "start", percentages |-> p, graded_enrollment |-> n, counts |-> <<>>] :
                    p \in PctInputs, n \in 0..MaxEnroll }
    /\ ai = Idle /\ ep = Idle /\ ex = Idle /\ pq = Idle /\ al = Idle /\ ld = Idle /\ ag = Idle

\* One call of percentages_to_counts on the drawn row.
Convert ==
    /\ pct.pc = "start"
    /\ pct' = [pct EXCEPT !.pc = "done",
                          !.counts = percentages_to_counts(pct.percentages, pct.graded_enrollment)]
    /\ UNCHANGED <<ai, ep, ex, pq, al, ld, ag>>

NextPct == Convert

SpecPct == InitPct /\ [][NextPct]_vars

\* C1: for every list of 12 non-negative percentages and every N >= 0, the 12
\* returned counts are non-negative integers that sum exactly to N.
C1_CountsSumToEnrollment ==
    pct.pc = "done" =>
        /\ Len(pct.counts) = NumGrades
        /\ \A i \in 1..NumGrades : pct.counts[i] \in Nat
        /\ SumSeq(pct.counts) = pct.graded_enrollment

(***************************************************************************)
(* backend/app/ai_fallback_parser.py                                       *)
(*                                                                         *)
(* One invocation of ai_fallback_parse_query_to_plan, a step per           *)
(* statement group.  The environment decides: whether OPENAI_API_KEY is    *)
(* set, how each transport call ends, what text the model returns, and how *)
(* the database behaves during the instructor-roster read.                 *)
(***************************************************************************)

\* IntentType of query_plan.py
IntentType == {"course_lookup", "browse_subjects", "section_filter", "ranking_query"}

\* What data.get("intent", "section_filter") can find in the model's JSON object:
\* a member of the enum, a string outside it, an explicit null, or no key.
AiIntents == IntentType \cup {"bogus", "null", "absent"}

\* Shapes of data["filters"]: no key, a falsy value (null, {}, [], ""), a
\* non-empty value that is no object (list, string, number), an object whose
\* fields PlanFilters accepts, an object PlanFilters rejects.
AiFilterShapes == {"absent", "falsy", "nondict", "dict_valid", "dict_invalid"}

\* Instructor lists the model may return (inside a valid filters object).
AiInstructorLists == { <<>>, <<"Prof. Cao">>, <<"Dr Smith", "Cao">> }

\* "sort_by": absent/null, or a string
AiSortBys == {None, "enrollment"}
AiSortOrders == {None, "ASC", "DESC", "sideways"}
\* "limit": absent/null (<<>>) or an integer (<<n>>)
AiLimits == {<<>>, <<0>>, <<5>>, <<-3>>}

\* A parsed JSON document: not an object at the top level, or an object.
AiObjects ==
    { [top |-> "object", intent |-> i, filters |-> f, instructors |-> ins,
       sort_by |-> sb, sort_order |-> so, limit |-> lim] :
        i \in AiIntents, f \in AiFilterShapes, ins \in AiInstructorLists,
        sb \in AiSortBys, so \in AiSortOrders, lim \in AiLimits }

NonObject ==
    [top |-> "nonobject", intent |-> "absent", filters |-> "absent", instructors |-> <<>>,
     sort_by |-> None, sort_order |-> None, limit |-> <<>>]

\* Objects actually tried: instructors only matter inside a valid filters
\* object, sort_by/sort_order/limit only when the plan gets built.
AiData ==
    { d \in AiObjects :
        /\ (d.filters # "dict_valid" => d.instructors = <<>>)
        /\ (d.filters # "dict_valid" \/ d.intent \in {"bogus", "null"}
                => d.sort_by = None /\ d.sort_order = None /\ d.limit = <<>>)
        /\ (d.instructors # <<>> => d.sort_by = None /\ d.sort_order = None /\ d.limit = <<>>) }
    \cup {NonObject}

\* The text a transport hands back: None, "", text that is not JSON, or JSON.
AiContents ==
    { [kind |-> k, data |-> NonObject] : k \in {"none", "empty", "nonjson"} }
    \cup { [kind |-> "json", data |-> d] : d \in AiData }

NoContent == [kind |-> "none", data |-> NonObject]

\* raw.replace("Professor","").replace("Prof.","").replace("Prof","")
\*    .replace("Dr.","").replace("Dr","").strip()
Cleaned(raw) ==
    CASE raw = "Prof. Cao" -> "Cao"
      [] raw = "Dr Smith"  -> "Smith"
      [] OTHER             -> raw

\* instructor.name_display rows of the store
Roster == {"Yong Cao"}

\* difflib.get_close_matches(search_token.lower(), roster, n=1, cutoff=0.6), then
\* the substring search: "cao" is no close match of "yong cao" (ratio 6/11) but
\* is a substring of it; "smith" matches nothing.
BestMatch(cleaned) ==
    IF cleaned = "Cao" /\ "Yong Cao" \in Roster THEN "Yong Cao" ELSE None

\* normalized.append(best_match or cleaned)
NormalizedWithRoster(raw_names) ==
    [k \in 1..Len(raw_names) |->
        IF BestMatch(Cleaned(raw_names[k])) # None
        THEN BestMatch(Cleaned(raw_names[k])) ELSE Cleaned(raw_names[k])]

\* the except branch: cleaned raw names
NormalizedFallback(raw_names) == [k \in 1..Len(raw_names) |-> Cleaned(raw_names[k])]

AiStart(key) ==
    [pc |-> "start", key |-> key, content |-> NoContent, transport_used |-> None,
     calls |-> <<>>, primary |-> None, result |-> "pending", exc |-> None,
     plan |-> None, instructors |-> <<>>,
     conn |-> "none", cur |-> "none", db_reads |-> 0]

\* line 142: os.getenv("OPENAI_API_KEY") is None when the variable is absent,
\* else its text, which may be empty
KeyValues == {None, "", "sk-test"}

\* bool(os.getenv("OPENAI_API_KEY")): None and "" are falsy
KeySet(key) == key # None /\ key # ""

InitAI ==
    /\ ai \in { AiStart(k) : k \in KeyValues }
    /\ pct = Idle /\ ep = Idle /\ ex = Idle /\ pq = Idle /\ al = Idle /\ ld = Idle /\ ag = Idle

AiReturn(a, r) == [a EXCEPT !.pc = "done", !.result = r]
AiRaise(a, e) == [a EXCEPT !.pc = "done", !.result = "raised", !.exc = e]

\* the function without its guard of lines 142-144
AI_CheckKey_Skipped ==
    /\ ai.pc = "start"
    /\ ai' = [ai EXCEPT !.pc = "primary"]
    /\ UNCHANGED <<pct, ep, ex, pq, al, ld, ag>>

\* lines 142-144: if not os.getenv("OPENAI_API_KEY"): return None
AI_CheckKey ==
    /\ ai.pc = "start"
    /\ ai' = IF ~KeySet(ai.key) THEN AiReturn(ai, "None") ELSE [ai EXCEPT !.pc = "primary"]
    /\ UNCHANGED <<pct, ep, ex, pq, al, ld, ag>>

\* lines 292-312: client.responses.create(...); both except branches fall through
PrimaryOutcomes == {"ok", "type_error", "other_error"}

AI_Primary ==
    /\ ai.pc = "primary"
    /\ \E o \in PrimaryOutcomes, c \in AiContents :
          /\ (o # "ok" => c = NoContent)
          /\ ai' = [ai EXCEPT !.calls = Append(@, "responses"),
                              !.primary = o,
                              !.content = c,
                              !.transport_used = IF o = "ok" THEN "responses" ELSE None,
                              \* line 314: if content is None
                              !.pc = IF c.kind = "none" THEN "secondary" ELSE "check_content"]
    /\ UNCHANGED <<pct, ep, ex, pq, al, ld, ag>>

\* lines 314-331: client.chat.completions.create(...)
AI_Secondary ==
    /\ ai.pc = "secondary"
    /\ \/ \E c \in AiContents :
             ai' = [ai EXCEPT !.calls = Append(@, "chat.completions"),
                              !.content = c,
                              !.transport_used = "chat.completions",
                              !.pc = "check_content"]
       \/ ai' = AiReturn([ai EXCEPT !.calls = Append(@, "chat.completions")], "None")
    /\ UNCHANGED <<pct, ep, ex, pq, al, ld, ag>>

\* lines 333-340: if not content: return None; json.loads(content)
AI_ParseJson ==
    /\ ai.pc = "check_content"
    /\ ai' = IF ai.content.kind \in {"none", "empty", "nonjson"}
             THEN AiReturn(ai, "None")
             ELSE [ai EXCEPT !.pc = "sanitize"]
    /\ UNCHANGED <<pct, ep, ex, pq, al, ld, ag>>

\* lines 343-357: data.get("filters", {}) or {}; ai_filters.get(key);
\* PlanFilters(**filters_dict) inside try/except
AI_Filters ==
    /\ ai.pc = "sanitize"
    /\ LET d == ai.content.data IN
       ai' = CASE d.top = "nonobject"        -> AiRaise(ai, "AttributeError")
               [] d.filters = "nondict"      -> AiRaise(ai, "AttributeError")
               [] d.filters = "dict_invalid" -> AiReturn(ai, "None")
               [] OTHER -> [ai EXCEPT !.pc = "normalize", !.instructors = d.instructors]
    /\ UNCHANGED <<pct, ep, ex, pq, al, ld, ag>>

\* lines 58-62: if not raw_names: return []; conn = get_db_conn(); cur = conn.cursor()
AI_RosterConnect ==
    /\ ai.pc = "normalize"
    /\ \/ /\ ai.instructors = <<>>
          /\ ai' = [ai EXCEPT !.pc = "build"]
       \/ /\ ai.instructors # <<>>
          /\ \/ ai' = AiRaise(ai, "OperationalError")            \* get_db_conn() fails
             \/ ai' = [ai EXCEPT !.conn = "open", !.cur = "open", !.pc = "roster"]
    /\ UNCHANGED <<pct, ep, ex, pq, al, ld, ag>>

\* lines 64-132: the roster SELECT, matching, and the two close() calls
AI_RosterRead ==
    /\ ai.pc = "roster"
    /\ \/ ai' = [ai EXCEPT !.db_reads = @ + 1, !.cur = "closed", !.conn = "closed",
                           !.instructors = NormalizedWithRoster(ai.instructors),
                           !.pc = "build"]
       \/ ai' = [ai EXCEPT !.cur = "closed", !.conn = "closed",      \* execute() raised
                           !.instructors = NormalizedFallback(ai.instructors),
                           !.pc = "build"]
    /\ UNCHANGED <<pct, ep, ex, pq, al, ld, ag>>

\* lines 362-386: QueryPlan(intent=data.get("intent", "section_filter"), ...) validates
\* intent; sort_by, sort_order and limit are assigned afterwards without validation.
AI_BuildPlan ==
    /\ ai.pc = "build"
    /\ LET d == ai.content.data
           intent == IF d.intent = "absent" THEN "section_filter" ELSE d.intent
       IN ai' = IF intent \notin IntentType
                THEN AiRaise(ai, "ValidationError")
                ELSE [AiReturn(ai, "plan") EXCEPT
                        !.plan = [intent |-> intent,
                                  instructors |-> ai.instructors,
                                  confidence |-> 7,      \* 0.7, in tenths
                                  \* if sort_by: plan.sort_by = sort_by
                                  sort_by |-> d.sort_by,
                                  \* if sort_order: plan.sort_order = sort_order
                                  sort_order |-> d.sort_order,
                                  \* if isinstance(limit, int): plan.limit = limit
                                  limit |-> d.limit,
                                  transport_used |-> ai.transport_used]]
    /\ UNCHANGED <<pct, ep, ex, pq, al, ld, ag>>

NextAI ==
    \/ AI_CheckKey
    \/ AI_Primary
    \/ AI_Secondary
    \/ AI_ParseJson
    \/ AI_Filters
    \/ AI_RosterConnect
    \/ AI_RosterRead
    \/ AI_BuildPlan

SpecAI == InitAI /\ [][NextAI]_vars

\* C2: ai_fallback_parse_query_to_plan never raises: whatever the model call and
\* the roster read do, the invocation ends by returning a QueryPlan or None.
C2_NeverRaises ==
    ai.pc = "done" => ai.result \in {"None", "plan"}

\* C13: the secondary transport (chat.completions) is called only after the
\* primary call failed with TypeError or AttributeError; after any other primary
\* failure the function returns None without a second network call.
C13_SecondaryOnlyAfterTypeError ==
    /\ (\E i \in DOMAIN ai.calls : ai.calls[i] = "chat.completions")
            => ai.primary = "type_error"
    /\ (ai.pc = "done" /\ ai.primary = "other_error")
            => (ai.result = "None" /\ ai.calls = <<"responses">>)

\* C14: with OPENAI_API_KEY absent or empty the invocation makes no transport
\* call and no database access at any point, and it ends by returning None.
C14_NoKeyNoCallNoDb ==
    ~KeySet(ai.key) =>
        /\ ai.calls = <<>>
        /\ ai.conn = "none" /\ ai.cur = "none" /\ ai.db_reads = 0
        /\ ai.pc = "done" => ai.result = "None"

\* C14 witness: an invocation without a usable key has returned None
C14_Witness ==
    /\ ai.pc = "done" /\ ai.result = "None"
    /\ ai.key \in {None, ""}
    /\ ai.calls = <<>>

(***************************************************************************)
(* The relational store read by the executor (tables written by            *)
(* db/tools/db_loader.py, read through v_grade_distribution_full).         *)
(* Optional numbers are <<>> (NULL / None) or <<n>>.  GPAs are in          *)
(* hundredths.                                                             *)
(***************************************************************************)

Seasons == {"Fall", "Spring", "Summer"}

\* subject(subject_code, name)
SubjectTable ==
    { [subject_code |-> "MATH", name |-> "Mathematics"],
      [subject_code |-> "CS",   name |-> "Computer Science"] }

\* instructor(name_display)
InstructorTable == {"Yong Cao", "Ann Lee"}

\* course(title)
CourseTitleTable == {"Linear Algebra", "Data Structures"}

\* term(term_id, label)
TermTable ==
    { [term_id |-> 202202, label |-> "Fall 2022"],
      [term_id |-> 202301, label |-> "Spring 2023"],
      [term_id |-> 202302, label |-> "Fall 2023"] }

\* text ILIKE '%needle%' over the strings of the model
ContainsTable ==
    { <<"Yong Cao", "Cao">>, <<"Yong Cao", "Yong Cao">>, <<"Ann Lee", "Lee">>,
      <<"Linear Algebra", "algebra">>, <<"Data Structures", "data">> }

ILikeContains(text, needle) == <<text, needle>> \in ContainsTable

\* label ILIKE '<season> %'
ILikeSeasonPrefix(label, season) ==
    \/ season = "Fall"   /\ label \in {"Fall 2022", "Fall 2023"}
    \/ season = "Spring" /\ label \in {"Spring 2023"}

\* " " in t
HasSpace(t) == t \notin Seasons

\* the twelve letter-count columns of a row
GradeRow(a, b, c, f) ==
    [l \in {"A", "A-", "B+", "B", "B-", "C+", "C", "C-", "D+", "D", "D-", "F"} |->
        CASE l = "A" -> a [] l = "B" -> b [] l = "C" -> c [] l = "F" -> f [] OTHER -> 0]

\* rows of v_grade_distribution_full
ViewRows ==
    { [section_id |-> 11, subject_code |-> "CS", course_number |-> "2104", course_no |-> 2104,
       course_title |-> "Data Structures", course_level |-> "UG", instructor |-> "Yong Cao",
       term_id |-> 202202, term_label |-> "Fall 2022", gpa |-> <<300>>,
       section_credits |-> <<3>>, course_credits |-> <<3>>,
       section_graded_enrollment |-> <<10>>, graded_enrollment |-> <<10>>,
       grades |-> GradeRow(4, 3, 2, 1)],
      [section_id |-> 12, subject_code |-> "CS", course_number |-> "2104", course_no |-> 2104,
       course_title |-> "Data Structures", course_level |-> "UG", instructor |-> "Ann Lee",
       term_id |-> 202301, term_label |-> "Spring 2023", gpa |-> <<400>>,
       section_credits |-> <<>>, course_credits |-> <<3>>,
       section_graded_enrollment |-> <<>>, graded_enrollment |-> <<20>>,
       grades |-> GradeRow(20, 0, 0, 0)],
      [section_id |-> 13, subject_code |-> "MATH", course_number |-> "5114", course_no |-> 5114,
       course_title |-> "Linear Algebra", course_level |-> "GR", instructor |-> "Yong Cao",
       term_id |-> 202302, term_label |-> "Fall 2023", gpa |-> <<>>,
       section_credits |-> <<4>>, course_credits |-> <<3>>,
       section_graded_enrollment |-> <<5>>, graded_enrollment |-> <<6>>,
       grades |-> GradeRow(1, 1, 1, 2)] }

(***************************************************************************)
(* backend/app/query_plan.py : PlanFilters                                 *)
(***************************************************************************)

\* PlanFilters(): every list and map empty, every optional number absent.
\* Maps (grade_min, ...) are sequences of <<letter, value>> in insertion order.
EmptyFilters ==
    [subjects |-> <<>>, course_numbers |-> <<>>, instructors |-> <<>>, terms |-> <<>>,
     course_title_contains |-> <<>>, exclude_instructors |-> <<>>, exclude_terms |-> <<>>,
     course_levels |-> <<>>, grade_min |-> <<>>, grade_min_percent |-> <<>>,
     grade_max |-> <<>>, b_or_above_percent_min |-> <<>>, grade_compare |-> <<>>,
     course_number_min |-> <<>>, course_number_max |-> <<>>,
     gpa_min |-> <<>>, gpa_max |-> <<>>, credits_min |-> <<>>, credits_max |-> <<>>,
     enrollment_min |-> <<>>, enrollment_max |-> <<>>]

(***************************************************************************)
(* backend/app/executor.py                                                 *)
(***************************************************************************)

Range(s) == { s[i] : i \in DOMAIN s }

\* SELECT 1 FROM subject WHERE subject_code = %s
SubjectExists(code) == \E r \in SubjectTable : r.subject_code = code

\* SELECT 1 FROM instructor WHERE name_display ILIKE %name%
InstructorExists(name) == \E n \in InstructorTable : ILikeContains(n, name)

\* SELECT 1 FROM course WHERE title ILIKE %title%
TitleExists(title) == \E t \in CourseTitleTable : ILikeContains(t, title)

\* filter_existing_subjects: (valid, dropped)
filter_existing_subjects(subjects) ==
    <<SelectSeq(subjects, LAMBDA c : SubjectExists(c)),
      SelectSeq(subjects, LAMBDA c : ~SubjectExists(c))>>

filter_existing_instructors(instructors) ==
    <<SelectSeq(instructors, LAMBDA n : InstructorExists(n)),
      SelectSeq(instructors, LAMBDA n : ~InstructorExists(n))>>

filter_existing_titles(titles) ==
    <<SelectSeq(titles, LAMBDA t : TitleExists(t)),
      SelectSeq(titles, LAMBDA t : ~TitleExists(t))>>

\* grade_map of build_where_and_params (keys looked up after .upper())
GradeLetters == {"A", "A-", "B+", "B", "B-", "C+", "C", "C-", "D+", "D", "D-", "F"}

Opt(kind, v) == IF v = <<>> THEN <<>> ELSE <<[kind |-> kind, arg |-> v[1]]>>
Lst(kind, l) == IF l = <<>> THEN <<>> ELSE <<[kind |-> kind, arg |-> l]>>

\* one clause per recognised letter of a grade map
GradeClauses(kind, m) ==
    LET F[i \in 0..Len(m)] ==
            IF i = 0 THEN <<>>
            ELSE IF m[i][1] \in GradeLetters
                 THEN Append(F[i - 1], [kind |-> kind, arg |-> m[i]])
                 ELSE F[i - 1]
    IN F[Len(m)]

CompareOps == {">", "<", ">=", "<="}

CompareClauses(l) ==
    LET F[i \in 0..Len(l)] ==
            IF i = 0 THEN <<>>
            ELSE IF l[i].left \in GradeLetters /\ l[i].right \in GradeLetters /\ l[i].op \in CompareOps
                 THEN Append(F[i - 1], [kind |-> "grade_compare", arg |-> l[i]])
                 ELSE F[i - 1]
    IN F[Len(l)]

\* build_where_and_params: the clauses, in the order the code appends them
\* (where_sql is "" exactly when the sequence is empty)
build_where_and_params(pf) ==
    Lst("subjects", pf.subjects)
    \o (IF pf.course_numbers # <<>> /\ pf.course_number_min = <<>> /\ pf.course_number_max = <<>>
        THEN Lst("course_numbers", pf.course_numbers) ELSE <<>>)
    \o Opt("course_number_min", pf.course_number_min)
    \o Opt("course_number_max", pf.course_number_max)
    \o Lst("course_levels", pf.course_levels)
    \o Lst("course_title_contains", pf.course_title_contains)
    \o Lst("instructors", pf.instructors)
    \o Lst("exclude_instructors", pf.exclude_instructors)
    \o Lst("exact_terms", SelectSeq(pf.terms, LAMBDA t : HasSpace(t)))
    \o Lst("season_terms", SelectSeq(pf.terms, LAMBDA t : ~HasSpace(t)))
    \o Lst("exclude_terms", pf.exclude_terms)
    \o Opt("gpa_min", pf.gpa_min)
    \o Opt("gpa_max", pf.gpa_max)
    \o Opt("credits_min", pf.credits_min)
    \o Opt("credits_max", pf.credits_max)
    \o Opt("enrollment_min", pf.enrollment_min)
    \o Opt("enrollment_max", pf.enrollment_max)
    \o GradeClauses("grade_min", pf.grade_min)
    \o GradeClauses("grade_max", pf.grade_max)
    \o GradeClauses("grade_min_percent", pf.grade_min_percent)
    \o Opt("b_or_above_percent_min", pf.b_or_above_percent_min)
    \o CompareClauses(pf.grade_compare)

Coalesce(a, b) == IF a # <<>> THEN a ELSE b

\* COALESCE(s.section_graded_enrollment, s.graded_enrollment)
EnrollmentCol(row) == Coalesce(row.section_graded_enrollment, row.graded_enrollment)

\* COALESCE(s.section_credits, s.course_credits)
CreditsCol(row) == Coalesce(row.section_credits, row.course_credits)

\* a comparison with NULL is not true
GeOpt(col, v) == col # <<>> /\ col[1] >= v
LeOpt(col, v) == col # <<>> /\ col[1] <= v

\* (count::float) >= (pct / 100.0) * NULLIF(enrollment, 0)
PercentAtLeast(count, percent, enr) ==
    enr # <<>> /\ enr[1] # 0 /\ 100 * count >= percent * enr[1]

CompareCounts(l, op, r) ==
    CASE op = ">" -> l > r [] op = "<" -> l < r [] op = ">=" -> l >= r [] op = "<=" -> l <= r

\* whether a view row satisfies one clause of the WHERE
RowSatisfies(row, c) ==
    CASE c.kind = "subjects" -> row.subject_code \in Range(c.arg)
      [] c.kind = "course_numbers" -> row.course_number \in Range(c.arg)
      [] c.kind = "course_number_min" -> row.course_no >= c.arg
      [] c.kind = "course_number_max" -> row.course_no <= c.arg
      [] c.kind = "course_levels" -> row.course_level \in Range(c.arg)
      [] c.kind = "course_title_contains" ->
            \A t \in Range(c.arg) : ILikeContains(row.course_title, t)
      [] c.kind = "instructors" -> \E n \in Range(c.arg) : ILikeContains(row.instructor, n)
      [] c.kind = "exclude_instructors" ->
            ~\E n \in Range(c.arg) : ILikeContains(row.instructor, n)
      [] c.kind = "exact_terms" -> row.term_label \in Range(c.arg)
      [] c.kind = "season_terms" ->
            \E t \in Range(c.arg) : ILikeSeasonPrefix(row.term_label, t)
      [] c.kind = "exclude_terms" -> row.term_label \notin Range(c.arg)
      [] c.kind = "gpa_min" -> GeOpt(row.gpa, c.arg)
      [] c.kind = "gpa_max" -> LeOpt(row.gpa, c.arg)
      [] c.kind = "credits_min" -> GeOpt(CreditsCol(row), c.arg)
      [] c.kind = "credits_max" -> LeOpt(CreditsCol(row), c.arg)
      [] c.kind = "enrollment_min" -> GeOpt(EnrollmentCol(row), c.arg)
      [] c.kind = "enrollment_max" -> LeOpt(EnrollmentCol(row), c.arg)
      [] c.kind = "grade_min" -> row.grades[c.arg[1]] >= c.arg[2]
      [] c.kind = "grade_max" -> row.grades[c.arg[1]] <= c.arg[2]
      [] c.kind = "grade_min_percent" ->
            PercentAtLeast(row.grades[c.arg[1]], c.arg[2], EnrollmentCol(row))
      [] c.kind = "b_or_above_percent_min" ->
            PercentAtLeast(row.grades["A"] + row.grades["A-"] + row.grades["B+"]
                             + row.grades["B"] + row.grades["B-"], c.arg, EnrollmentCol(row))
      [] c.kind = "grade_compare" ->
            CompareCounts(row.grades[c.arg.left], c.arg.op, row.grades[c.arg.right])
      \* the anchored pair of course_lookup: s.subject_code = %s, CAST(s.course_number AS TEXT) = %s
      [] c.kind = "subject_eq" -> row.subject_code = c.arg
      [] c.kind = "course_number_eq" -> row.course_number = c.arg

\* sort_field_map, as a number per row; NULL sorts as larger than every value
NullKey == 1000000

SortKey(row, sort_by) ==
    CASE sort_by = "gpa" -> IF row.gpa = <<>> THEN NullKey ELSE row.gpa[1]
      [] sort_by = "enrollment" ->
            IF EnrollmentCol(row) = <<>> THEN NullKey ELSE EnrollmentCol(row)[1]
      [] OTHER -> row.term_id

\* ORDER BY <key> <direction>, s.section_id over a set of rows
OrderRows(rows, sort_by, direction) ==
    LET Before(r1, r2) ==
            \/ direction = "DESC" /\ SortKey(r1, sort_by) > SortKey(r2, sort_by)
            \/ direction = "ASC" /\ SortKey(r1, sort_by) < SortKey(r2, sort_by)
            \/ SortKey(r1, sort_by) = SortKey(r2, sort_by) /\ r1.section_id < r2.section_id
    IN [k \in 1..Cardinality(rows) |->
            CHOOSE r \in rows : Cardinality({q \in rows : Before(q, r)}) = k - 1]

\* LIMIT n
LimitRows(seq, limit) ==
    IF limit = <<>> \/ limit[1] >= Len(seq) THEN seq ELSE SubSeq(seq, 1, limit[1])

\* the function with the mean taken over every section
compute_aggregates_MeanOverAll(sections) ==
    [section_count |-> Len(sections),
     avg_gpa |-> IF Len(sections) > 0
                 THEN <<(20 * SumSeq([i \in 1..Len(sections) |->
                                        IF sections[i].gpa # <<>> THEN sections[i].gpa[1] ELSE 0])
                         + Len(sections)) \div (2 * Len(sections))>>
                 ELSE <<>>,
     total_graded_enrollment |->
         SumSeq([i \in 1..Len(sections) |->
                     IF sections[i].graded_enrollment # <<>>
                     THEN sections[i].graded_enrollment[1] ELSE 0])]

\* compute_aggregates (lines 64-92); GPAs are in hundredths and avg_gpa is <<>>
\* or <<round(gpa_sum / gpa_count, 3) in thousandths>>
compute_aggregates(sections) ==
    LET withGpa == SelectSeq(sections, LAMBDA x : x.gpa # <<>>)
        gpa_sum == SumSeq([i \in 1..Len(withGpa) |-> withGpa[i].gpa[1]])
        gpa_count == Len(withGpa)
    IN [section_count |-> Len(sections),
        avg_gpa |-> IF gpa_count > 0
                    THEN <<(20 * gpa_sum + gpa_count) \div (2 * gpa_count)>>
                    ELSE <<>>,
        total_graded_enrollment |->
            SumSeq([i \in 1..Len(sections) |->
                        IF sections[i].graded_enrollment # <<>>
                        THEN sections[i].graded_enrollment[1] ELSE 0])]

ZeroAggregates == [section_count |-> 0, avg_gpa |-> <<>>, total_graded_enrollment |-> 0]

\* dict assignment d[k] = v
Put(d, k, v) == [x \in (DOMAIN d) \cup {k} |-> IF x = k THEN v ELSE d[x]]

\* d.setdefault(k, []).extend(v)
Extend(d, k, v) == IF k \in DOMAIN d THEN [d EXCEPT ![k] = @ \o v] ELSE Put(d, k, v)

\* the same lookup with ORDER BY term_id ASC
LatestTerm_Earliest(season) ==
    LET m == { t \in TermTable : ILikeSeasonPrefix(t.label, season) }
    IN IF m = {} THEN <<>>
       ELSE <<(CHOOSE t \in m : \A u \in m : u.term_id >= t.term_id).label>>

\* lines 421-425 and 517-521:
\* SELECT label FROM term WHERE label ILIKE '<season> %' ORDER BY term_id DESC LIMIT 1
LatestTerm(season) ==
    LET m == { t \in TermTable : ILikeSeasonPrefix(t.label, season) }
    IN IF m = {} THEN <<>>
       ELSE <<(CHOOSE t \in m : \A u \in m : u.term_id <= t.term_id).label>>

\* lines 418-426 and 514-522: the row the relative-term hint resolves to; <<>>
\* without a hint, with terms already set, or with no matching term row
ResolveRelativeTerm(rel, terms) ==
    IF rel # <<>> /\ terms = <<>> THEN LatestTerm(rel[1].season) ELSE <<>>

\* an exclusion that removes from terms only the labels exclude_terms lists
ExclusionPrecedence_OverlapOnly(terms, exclude_terms) ==
    SelectSeq(terms, LAMBDA t : t \notin Range(exclude_terms))

\* lines 431-434 and 526-529: with exclude_terms set, terms is emptied
ExclusionPrecedence(terms, exclude_terms) ==
    IF exclude_terms # <<>> THEN <<>> ELSE terms

\* the guard in front of the filtered_out bookkeeping: lines 440 and 535
DropGuard(intent, dropped_subjects, dropped_instructors, dropped_excl, dropped_titles) ==
    IF intent = "course_lookup"
    THEN dropped_subjects # <<>> \/ dropped_instructors # <<>> \/ dropped_excl # <<>>
    ELSE dropped_subjects # <<>> \/ dropped_instructors # <<>> \/ dropped_excl # <<>>
            \/ dropped_titles # <<>>

PutIf(d, k, v) == IF v # <<>> THEN Put(d, k, v) ELSE d

\* lines 409-450 (course_lookup) and 506-545 (section_filter): validation against
\* the reference tables, relative-term resolution, exclusion precedence and the
\* filtered_out bookkeeping.  Gives the cleaned copy pf, the dropped values, the
\* (mutated) plan.debug and pf.terms as it stands after the resolution step.
Validate(plan) ==
    LET pf0   == plan.filters
        subj  == filter_existing_subjects(pf0.subjects)
        inst  == filter_existing_instructors(pf0.instructors)
        excl  == filter_existing_instructors(pf0.exclude_instructors)
        titl  == filter_existing_titles(pf0.course_title_contains)
        rel   == plan.debug.relative_term
        found == ResolveRelativeTerm(rel, pf0.terms)
        terms1 == IF found # <<>> THEN found ELSE pf0.terms
        rel1  == IF found # <<>> THEN <<[rel[1] EXCEPT !.resolved = found[1]]>> ELSE rel
        terms2 == ExclusionPrecedence(terms1, pf0.exclude_terms)
        fo1   == IF pf0.exclude_terms = <<>> THEN plan.debug.filtered_out
                 ELSE Extend(plan.debug.filtered_out, "terms",
                             IF terms1 # <<>> THEN terms1 ELSE pf0.exclude_terms)
        fo2   == IF DropGuard(plan.intent, subj[2], inst[2], excl[2], titl[2])
                 THEN PutIf(PutIf(PutIf(PutIf(fo1, "subjects", subj[2]),
                                        "instructors", inst[2]),
                                  "exclude_instructors", excl[2]),
                            "course_title_contains", titl[2])
                 ELSE fo1
    IN [pf |-> [pf0 EXCEPT !.subjects = subj[1],
                           !.instructors = inst[1],
                           !.exclude_instructors = excl[1],
                           !.course_title_contains = titl[1],
                           !.terms = terms2,
                           !.course_numbers = IF subj[1] = <<>> THEN <<>> ELSE @],
        dropped |-> [subjects |-> subj[2], instructors |-> inst[2],
                     exclude_instructors |-> excl[2], course_title_contains |-> titl[2]],
        resolved_terms |-> terms1,
        debug |-> [relative_term |-> rel1, filtered_out |-> fo2]]

\* EarlyReturn without the empty-WHERE check of line 547
EarlyReturn_NoEmptyWhereCheck(intent, pf) ==
    intent = "course_lookup" /\ (pf.subjects = <<>> \/ pf.course_numbers = <<>>)

\* line 452: if not pf.subjects or not pf.course_numbers  (course_lookup)
\* line 547: if not where_sql                             (section_filter)
EarlyReturn(intent, pf) ==
    IF intent = "course_lookup"
    THEN pf.subjects = <<>> \/ pf.course_numbers = <<>>
    ELSE build_where_and_params(pf) = <<>>

\* the WHERE of both branches built by build_where_and_params alone
WhereClauses_Unanchored(intent, pf) == build_where_and_params(pf)

\* lines 457-473 (anchored pair plus the extra layer) and line 546
WhereClauses(intent, pf) ==
    IF intent = "course_lookup"
    THEN <<[kind |-> "subject_eq", arg |-> pf.subjects[1]],
           [kind |-> "course_number_eq", arg |-> pf.course_numbers[1]]>>
         \o build_where_and_params([pf EXCEPT !.subjects = <<>>, !.course_numbers = <<>>])
    ELSE build_where_and_params(pf)

\* lines 475-486 / 551-562: ORDER BY and LIMIT text
SortFields == {"gpa", "enrollment", "term"}

OrderClause(plan) ==
    IF plan.sort_by \in SortFields
    THEN [sort_by |-> plan.sort_by,
          direction |-> IF plan.sort_order # None THEN plan.sort_order ELSE "DESC"]
    ELSE [sort_by |-> "term", direction |-> "DESC"]

\* f"LIMIT {plan.limit}" if plan.limit else ""
LimitClause(plan) == IF plan.limit # <<>> /\ plan.limit[1] # 0 THEN plan.limit ELSE <<>>

SectionQuery(plan, pf) ==
    [where |-> WhereClauses(plan.intent, pf), order |-> OrderClause(plan),
     limit |-> LimitClause(plan)]

\* what the database makes of the statement: a direction that is not ASC/DESC or
\* a negative LIMIT is rejected
QueryAccepted(q) ==
    /\ q.order.direction \in {"ASC", "DESC", "asc", "desc"}
    /\ (q.limit # <<>> => q.limit[1] >= 0)

Upper(direction) ==
    CASE direction = "asc" -> "ASC" [] direction = "desc" -> "DESC" [] OTHER -> direction

\* cur.execute(sql, params); cur.fetchall(); [row_to_section(row) for row in rows]
RunQuery(q) ==
    LimitRows(OrderRows({ r \in ViewRows : \A i \in 1..Len(q.where) : RowSatisfies(r, q.where[i]) },
                        q.order.sort_by, Upper(q.order.direction)),
              q.limit)

\* SELECT subject_code, name FROM subject ORDER BY subject_code
SubjectsByCode ==
    LET Code(r) == IF r.subject_code = "CS" THEN 1 ELSE 2     \* "CS" < "MATH"
    IN [k \in 1..Cardinality(SubjectTable) |->
            CHOOSE r \in SubjectTable : Cardinality({q \in SubjectTable : Code(q) < Code(r)}) = k - 1]

NoOutcome == [kind |-> "none"]

Returned(sections, subjects, aggregates, normalized_filters) ==
    [kind |-> "return", sections |-> sections, subjects |-> subjects,
     aggregates |-> aggregates, normalized_filters |-> normalized_filters]

Raised(e) == [kind |-> "raise", exc |-> e]

ExStart(plan) ==
    [pc |-> "open", plan |-> plan, received |-> plan,
     pf_bound |-> FALSE, pf |-> EmptyFilters, resolved_terms |-> <<>>,
     dropped |-> [subjects |-> <<>>, instructors |-> <<>>,
                  exclude_instructors |-> <<>>, course_title_contains |-> <<>>],
     conn |-> "none", cur |-> "none", conns_opened |-> 0, cursors_opened |-> 0,
     queries |-> <<>>, db_failed |-> FALSE, pending |-> NoOutcome, result |-> NoOutcome]

\* lines 400-405: conn = get_db_conn(); cur = conn.cursor()
\* (a connection that cannot be established raises before anything is opened)
E_Open ==
    /\ ex.pc = "open"
    /\ \/ ex' = [ex EXCEPT !.pc = "done", !.db_failed = TRUE,
                           !.result = Raised("OperationalError")]
       \/ ex' = [ex EXCEPT !.pc = "dispatch", !.conn = "open", !.cur = "open",
                           !.conns_opened = @ + 1, !.cursors_opened = @ + 1]
    /\ UNCHANGED <<pct, ai, ep, pq, al, ld, ag>>

\* lines 408-454 and 505-549: validation; a failing validation query raises
E_Validate ==
    /\ ex.pc = "dispatch"
    /\ ex.plan.intent \in {"course_lookup", "section_filter"}
    /\ \/ ex' = [ex EXCEPT !.pc = "finally", !.db_failed = TRUE,
                           !.pending = Raised("DatabaseError")]
       \/ LET v == Validate(ex.plan)
              e == [ex EXCEPT !.pf_bound = TRUE, !.pf = v.pf, !.dropped = v.dropped,
                              !.resolved_terms = v.resolved_terms, !.plan.debug = v.debug]
          IN ex' = IF EarlyReturn(ex.plan.intent, v.pf)
                   THEN [e EXCEPT !.pc = "finally",
                                  !.pending = Returned(<<>>, <<>>, compute_aggregates(<<>>), v.pf)]
                   ELSE [e EXCEPT !.pc = "query"]
    /\ UNCHANGED <<pct, ai, ep, pq, al, ld, ag>>

\* lines 475-496 and 551-578: the section SELECT, then aggregates and the return
E_SectionQuery ==
    /\ ex.pc = "query"
    /\ LET q == SectionQuery(ex.plan, ex.pf)
           e == [ex EXCEPT !.pc = "finally", !.queries = Append(@, q)]
       IN \/ ex' = [e EXCEPT !.db_failed = TRUE, !.pending = Raised("DatabaseError")]
          \/ /\ QueryAccepted(q)
             /\ ex' = [e EXCEPT !.pending =
                          Returned(RunQuery(q), <<>>, compute_aggregates(RunQuery(q)), ex.pf)]
          \/ /\ ~QueryAccepted(q)
             /\ ex' = [e EXCEPT !.pending = Raised("ProgrammingError")]
    /\ UNCHANGED <<pct, ai, ep, pq, al, ld, ag>>

\* line 577 reads pf, which only the course_lookup and section_filter branches bind
AfterBranch(e, sections, subjects) ==
    IF e.pf_bound
    THEN Returned(sections, subjects, compute_aggregates(sections), e.pf)
    ELSE Raised("UnboundLocalError")

\* lines 498-503, then 576-578
E_BrowseSubjects ==
    /\ ex.pc = "dispatch"
    /\ ex.plan.intent = "browse_subjects"
    /\ \/ ex' = [ex EXCEPT !.pc = "finally", !.db_failed = TRUE,
                           !.pending = Raised("DatabaseError")]
       \/ ex' = [ex EXCEPT !.pc = "finally",
                           !.pending = AfterBranch(ex, <<>>, <<SubjectsByCode>>)]
    /\ UNCHANGED <<pct, ai, ep, pq, al, ld, ag>>

\* no branch for ranking_query (line 574): straight to lines 576-578
E_NoBranch ==
    /\ ex.pc = "dispatch"
    /\ ex.plan.intent \notin {"course_lookup", "section_filter", "browse_subjects"}
    /\ ex' = [ex EXCEPT !.pc = "finally", !.pending = AfterBranch(ex, <<>>, <<>>)]
    /\ UNCHANGED <<pct, ai, ep, pq, al, ld, ag>>

\* Finally without conn.close()
Finally_CursorOnly(e) == [e EXCEPT !.cur = "closed"]

\* lines 580-582: finally: cur.close(); conn.close()
Finally(e) == [e EXCEPT !.cur = "closed", !.conn = "closed"]

E_Finally ==
    /\ ex.pc = "finally"
    /\ ex' = [Finally(ex) EXCEPT !.pc = "done", !.result = ex.pending]
    /\ UNCHANGED <<pct, ai, ep, pq, al, ld, ag>>

\* The plans handed to execute_plan.
ExSubjects == { <<>>, <<"CS">>, <<"ZZZ">>, <<"ZZZ", "MATH">> }
ExCourseNumbers == { <<>>, <<"2104">> }
ExInstructors == { <<>>, <<"Cao">>, <<"Nobody">> }
ExExcludeInstructors == { <<>>, <<"Nobody">> }
ExTitles == { <<>>, <<"zzz">>, <<"algebra">> }
ExTerms == { <<>>, <<"Fall 2022">> }
ExExcludeTerms == { <<>>, <<"Fall 2022">> }
\* debug["relative_term"]: no hint, or a season with one term row (Spring), with
\* two (Fall), with none (Summer)
ExRelativeTerms ==
    { <<>> } \cup { <<[season |-> s, when |-> "last", resolved |-> None]>> : s \in Seasons }


\* the remaining fields: all unset, a GPA floor, or a grade rule naming no known letter
ExOtherFilters ==
    { EmptyFilters,
      [EmptyFilters EXCEPT !.gpa_min = <<350>>],
      [EmptyFilters EXCEPT !.grade_min = << <<"Z", 1>> >>] }

ExSorts ==
    { [sort_by |-> None, sort_order |-> None, limit |-> <<>>],
      [sort_by |-> "gpa", sort_order |-> "ASC", limit |-> <<1>>],
      [sort_by |-> "enrollment", sort_order |-> "sideways", limit |-> <<>>] }

ExFilters ==
    { [o EXCEPT !.subjects = s, !.course_numbers = n, !.instructors = i,
                !.exclude_instructors = xi, !.course_title_contains = t,
                !.terms = tm, !.exclude_terms = xt] :
        o \in ExOtherFilters, s \in ExSubjects, n \in ExCourseNumbers, i \in ExInstructors,
        xi \in ExExcludeInstructors, t \in ExTitles, tm \in ExTerms, xt \in ExExcludeTerms }

PlanSet(filters, sorts, recorded) ==
    { [intent |-> it, filters |-> f, sort_by |-> so.sort_by, sort_order |-> so.sort_order,
       limit |-> so.limit, confidence |-> 8,
       debug |-> [relative_term |-> rt, filtered_out |-> fo]] :
        it \in IntentType, f \in filters, so \in sorts, rt \in ExRelativeTerms,
        fo \in recorded }

\* every plan with an empty filtered_out
ExPlans == PlanSet(ExFilters, ExSorts, {<<>>})

\* the unsorted plans with an exclusion and no grade or GPA rule whose
\* filtered_out already holds terms
ExRecordedPlans ==
    PlanSet({ f \in ExFilters : f.exclude_terms # <<>> /\ f.gpa_min = <<>>
                                      /\ f.grade_min = <<>> },
            { so \in ExSorts : so.sort_by = None }, { [k \in {"terms"} |-> <<"Summer 2021">>] })

InitExec ==
    /\ \/ ex \in { ExStart(p) : p \in ExPlans }
       \/ ex \in { ExStart(p) : p \in ExRecordedPlans }
    /\ pct = Idle /\ ai = Idle /\ ep = Idle /\ pq = Idle /\ al = Idle /\ ld = Idle /\ ag = Idle

NextExec ==
    \/ E_Open
    \/ E_Validate
    \/ E_SectionQuery
    \/ E_BrowseSubjects
    \/ E_NoBranch
    \/ E_Finally

SpecExec == InitExec /\ [][NextExec]_vars

ExDone == ex.pc = "done"

\* C5: execute_plan on a browse_subjects plan, whatever its filters, returns
\* normally with all subjects ordered by code, no sections and zeroed aggregates
\* (the database answering every query).
C5_BrowseReturnsSubjects ==
    (ExDone /\ ex.received.intent = "browse_subjects" /\ ~ex.db_failed) =>
        /\ ex.result.kind = "return"
        /\ ex.result.subjects = <<SubjectsByCode>>
        /\ ex.result.sections = <<>>
        /\ ex.result.aggregates = ZeroAggregates

\* C6: a section_filter plan never runs the section SELECT without a WHERE
\* condition; when no filter survives validation the call returns zero sections
\* and aggregates {0, absent, 0} without raising and without running the SELECT.
C6_NoUnfilteredScan ==
    ex.pc # "idle" /\ ex.received.intent = "section_filter" =>
        /\ \A i \in DOMAIN ex.queries : Len(ex.queries[i].where) >= 1
        /\ (ExDone /\ ~ex.db_failed /\ ex.pf = EmptyFilters) =>
               /\ ex.result.kind = "return"
               /\ ex.result.sections = <<>>
               /\ ex.result.aggregates = ZeroAggregates
               /\ ex.queries = <<>>

\* C6 witness: the only filters were a nonexistent subject and a nonexistent
\* instructor, nothing survived, and the call returned.
C6_Witness ==
    /\ ExDone /\ ex.received.intent = "section_filter"
    /\ ex.received.filters.subjects = <<"ZZZ">>
    /\ ex.received.filters.instructors = <<"Nobody">>
    /\ ex.pf_bound /\ ex.pf = EmptyFilters
    /\ ex.result.kind = "return"

ValidatedFields == {"subjects", "instructors", "exclude_instructors", "course_title_contains"}

\* C7: for course_lookup and section_filter plans, every value validation drops
\* is in plan.debug["filtered_out"] under its own field name after the call.
C7_DropsRecorded ==
    (ExDone /\ ex.received.intent \in {"course_lookup", "section_filter"}
            /\ ex.result.kind = "return") =>
        \A f \in ValidatedFields :
            \A v \in Range(ex.dropped[f]) :
                /\ f \in DOMAIN ex.plan.debug.filtered_out
                /\ v \in Range(ex.plan.debug.filtered_out[f])

\* C10: execute_plan opens one connection and one cursor per invocation and has
\* closed both by the time it returns or raises: on the early empty-result
\* returns, the normal return, and a failing validation or section query.
C10_ConnectionAndCursorClosed ==
    /\ ex.pc # "idle" => ex.conns_opened <= 1 /\ ex.cursors_opened <= 1
    /\ ex.pc \in {"dispatch", "query", "finally"} =>
            ex.conns_opened = 1 /\ ex.cursors_opened = 1
    /\ (ExDone /\ ex.conns_opened = 1) =>
            ex.cursors_opened = 1 /\ ex.conn = "closed" /\ ex.cur = "closed"

\* C10 witness: a section query failed and the call raised with both closed.
C10_Witness ==
    /\ ExDone /\ ex.queries # <<>> /\ ex.result.kind = "raise"
    /\ ex.conn = "closed" /\ ex.cur = "closed"

\* C21: the normalized filters execute_plan returns for a course_lookup or
\* section_filter plan never have terms and exclude_terms both non-empty: with
\* exclude_terms non-empty, terms (explicit, or just resolved from a relative
\* term) is emptied and the labels taken out are appended to
\* debug["filtered_out"]["terms"].
C21_ExclusionWins ==
    (ExDone /\ ex.received.intent \in {"course_lookup", "section_filter"}
            /\ ex.result.kind = "return") =>
        LET nf == ex.result.normalized_filters
            before == ex.received.debug.filtered_out
            after == ex.plan.debug.filtered_out
            old == IF "terms" \in DOMAIN before THEN before["terms"] ELSE <<>>
        IN /\ ~(nf.terms # <<>> /\ nf.exclude_terms # <<>>)
           /\ nf.exclude_terms = ex.received.filters.exclude_terms
           /\ ex.received.filters.exclude_terms # <<>> =>
                 /\ nf.terms = <<>>
                 /\ ex.resolved_terms # <<>> =>
                       /\ "terms" \in DOMAIN after
                       /\ after["terms"] = old \o ex.resolved_terms

\* C21 witness: "last spring" resolved to Spring 2023 while Fall 2022 is
\* excluded: terms comes back empty and Spring 2023 follows the label that
\* filtered_out already held.
C21_Witness ==
    /\ ExDone /\ ex.result.kind = "return"
    /\ ex.received.intent = "section_filter"
    /\ ex.received.filters.terms = <<>>
    /\ ex.received.filters.exclude_terms = <<"Fall 2022">>
    /\ ex.resolved_terms = <<"Spring 2023">>
    /\ ex.result.normalized_filters.terms = <<>>
    /\ ex.plan.debug.filtered_out["terms"] = <<"Summer 2021", "Spring 2023">>

\* the fields of a filters object that give one clause each when they are set
LayeredFields ==
    {"course_levels", "course_title_contains", "instructors", "exclude_instructors",
     "exclude_terms", "gpa_min", "gpa_max", "credits_min", "credits_max",
     "enrollment_min", "enrollment_max", "course_number_min", "course_number_max",
     "b_or_above_percent_min"}

\* C26: a course_lookup plan runs the section query only if a subject and a
\* course number survive validation, and otherwise returns no sections and
\* zeroed aggregates; the query pins the first surviving subject and the first
\* course number by equality, has one further conjunct for every other filter
\* that survived, and repeats neither subjects nor course_numbers among them.
C26_CourseLookupAnchored ==
    (ex.pc # "idle" /\ ex.received.intent = "course_lookup") =>
        /\ ex.queries # <<>> => ex.pf.subjects # <<>> /\ ex.pf.course_numbers # <<>>
        /\ (ExDone /\ ex.result.kind = "return"
                /\ (ex.pf.subjects = <<>> \/ ex.pf.course_numbers = <<>>)) =>
              /\ ex.queries = <<>>
              /\ ex.result.sections = <<>>
              /\ ex.result.aggregates = ZeroAggregates
        /\ \A i \in DOMAIN ex.queries :
              LET w == ex.queries[i].where
              IN /\ Len(w) >= 2
                 /\ w[1] = [kind |-> "subject_eq", arg |-> ex.pf.subjects[1]]
                 /\ w[2] = [kind |-> "course_number_eq", arg |-> ex.pf.course_numbers[1]]
                 /\ \A k \in 3..Len(w) :
                       w[k].kind \notin {"subjects", "course_numbers", "subject_eq",
                                         "course_number_eq"}
                 /\ \A f \in LayeredFields :
                       ex.pf[f] # <<>> <=> \E k \in 3..Len(w) : w[k].kind = f
                 /\ ex.pf.terms # <<>> <=>
                       \E k \in 3..Len(w) : w[k].kind \in {"exact_terms", "season_terms"}

\* C26 witness: subjects ZZZ, MATH with course number 2104, an instructor and a
\* term: ZZZ is dropped and the query pins MATH and 2104 and adds the
\* instructor and the term.
C26_Witness ==
    /\ ExDone /\ ex.received.intent = "course_lookup"
    /\ ex.received.filters.subjects = <<"ZZZ", "MATH">>
    /\ Len(ex.queries) = 1
    /\ ex.queries[1].where =
          << [kind |-> "subject_eq", arg |-> "MATH"],
             [kind |-> "course_number_eq", arg |-> "2104"],
             [kind |-> "instructors", arg |-> <<"Cao">>],
             [kind |-> "exact_terms", arg |-> <<"Fall 2022">>] >>

\* C27: relative-term resolution.  With a relative_term season in plan.debug
\* and an empty terms list, terms becomes the one label with the greatest
\* term_id among the term rows whose label starts with the season, and the
\* label is recorded as resolved; it stays empty, with nothing recorded, when
\* there is no such row.  A non-empty terms list is left as it was and nothing
\* is recorded.  (What is returned is this list after the exclusion step.)
C27_RelativeTermResolution ==
    (ex.pc # "idle" /\ ex.pf_bound
        /\ ex.received.intent \in {"course_lookup", "section_filter"}) =>
        LET rel == ex.received.debug.relative_term
            given == ex.received.filters.terms
            rows == IF rel = <<>> THEN {}
                    ELSE { t \in TermTable : ILikeSeasonPrefix(t.label, rel[1].season) }
        IN /\ (rel # <<>> /\ given = <<>> /\ rows # {}) =>
                 \E t \in rows :
                    /\ \A u \in rows : u.term_id <= t.term_id
                    /\ ex.resolved_terms = <<t.label>>
                    /\ ex.plan.debug.relative_term = <<[rel[1] EXCEPT !.resolved = t.label]>>
                    /\ ex.received.filters.exclude_terms = <<>> => ex.pf.terms = <<t.label>>
           /\ (rel # <<>> /\ given = <<>> /\ rows = {}) =>
                 /\ ex.resolved_terms = <<>> /\ ex.pf.terms = <<>>
                 /\ ex.plan.debug.relative_term = rel
           /\ given # <<>> =>
                 /\ ex.resolved_terms = given
                 /\ ex.plan.debug.relative_term = rel

\* C27 witness: "last fall" with two Fall rows and no terms resolved to Fall 2023
C27_Witness ==
    /\ ExDone /\ ex.result.kind = "return"
    /\ ex.received.debug.relative_term = <<[season |-> "Fall", when |-> "last", resolved |-> None]>>
    /\ ex.received.filters.terms = <<>>
    /\ ex.result.normalized_filters.terms = <<"Fall 2023">>
    /\ ex.plan.debug.relative_term[1].resolved = "Fall 2023"

\* C28: execute_plan changes nothing of the QueryPlan it receives but its
\* filters: intent, sort_by, sort_order, limit, confidence and the debug map are
\* after the call what they were before it.
C28_PlanUnchangedButFilters ==
    ExDone =>
        /\ ex.plan.intent = ex.received.intent
        /\ ex.plan.sort_by = ex.received.sort_by
        /\ ex.plan.sort_order = ex.received.sort_order
        /\ ex.plan.limit = ex.received.limit
        /\ ex.plan.confidence = ex.received.confidence
        /\ ex.plan.debug = ex.received.debug

\* C29: for every plan that reaches the section query, from either parser, the
\* text interpolated after ORDER BY <column> is ASC or DESC and the LIMIT
\* value, when there is one, is a positive integer.  Here: the plans the AI
\* parser returns, put through the executor's ORDER BY and LIMIT construction.
C29_SortAndLimitValidated ==
    (ai.pc = "done" /\ ai.result = "plan"
        /\ ai.plan.intent \in {"course_lookup", "section_filter"}) =>
        /\ OrderClause(ai.plan).direction \in {"ASC", "DESC"}
        /\ LimitClause(ai.plan) # <<>> => LimitClause(ai.plan)[1] > 0

(***************************************************************************)
(* backend/app/executor.py : compute_aggregates on its own.  A section is  *)
(* given by the two fields the function reads, s.grades.gpa and            *)
(* s.grades.graded_enrollment, each absent (None) or present.  The GPA     *)
(* values are multiples of 0.02, so that no mean of up to four of them     *)
(* lies exactly between two thousandths, where round(x, 3) depends on the  *)
(* binary representation of x.                                             *)
(***************************************************************************)
MaxSections == 3

AggGpas == {<<>>, <<250>>, <<300>>, <<400>>}
AggEnrollments == {<<>>, <<10>>, <<20>>}
AggSections == { [gpa |-> g, graded_enrollment |-> e] : g \in AggGpas, e \in AggEnrollments }
AggLists == UNION { [1..n -> AggSections] : n \in 0..MaxSections }

\* line 64: def compute_aggregates(sections)
InitAgg ==
    /\ ag \in { [pc |-> "start", sections |-> l, result |-> None] : l \in AggLists }
    /\ pct = Idle /\ ai = Idle /\ ep = Idle /\ ex = Idle /\ pq = Idle /\ al = Idle /\ ld = Idle

\* lines 64-92
A_Compute ==
    /\ ag.pc = "start"
    /\ ag' = [ag EXCEPT !.pc = "done", !.result = compute_aggregates(ag.sections)]
    /\ UNCHANGED <<pct, ai, ep, ex, pq, al, ld>>

NextAgg == A_Compute

SpecAgg == InitAgg /\ [][NextAgg]_vars

RECURSIVE PresentTotal(_)
\* the sum of the present values of a sequence of optional numbers
PresentTotal(vals) ==
    IF vals = <<>> THEN 0
    ELSE (IF Head(vals) = <<>> THEN 0 ELSE Head(vals)[1]) + PresentTotal(Tail(vals))

RECURSIVE PresentCount(_)
\* the number of present values of a sequence of optional numbers
PresentCount(vals) ==
    IF vals = <<>> THEN 0
    ELSE (IF Head(vals) = <<>> THEN 0 ELSE 1) + PresentCount(Tail(vals))

\* C15: compute_aggregates: section_count is the list length,
\* total_graded_enrollment is the sum of the grade-distribution enrollments that
\* are present, avg_gpa is the mean of the GPAs that are present, to the three
\* decimals the result carries (n * avg is within n/2 thousandths of the sum),
\* and absent when no section has a GPA; the empty list gives (0, absent, 0).
C15_Aggregates ==
    ag.pc = "done" =>
        LET gpas == [i \in DOMAIN ag.sections |-> ag.sections[i].gpa]
            enrs == [i \in DOMAIN ag.sections |-> ag.sections[i].graded_enrollment]
            n == PresentCount(gpas)
            r == ag.result
        IN /\ r.section_count = Len(ag.sections)
           /\ r.total_graded_enrollment = PresentTotal(enrs)
           /\ n = 0 => r.avg_gpa = <<>>
           /\ n > 0 => /\ r.avg_gpa # <<>>
                       /\ 2 * (n * r.avg_gpa[1] - 10 * PresentTotal(gpas)) <= n
                       /\ 2 * (10 * PresentTotal(gpas) - n * r.avg_gpa[1]) <= n
           /\ ag.sections = <<>> =>
                 r = [section_count |-> 0, avg_gpa |-> <<>>, total_graded_enrollment |-> 0]

\* C15 witness: GPAs [3.0, 4.0, absent] and enrollments [10, 20, absent] give
\* avg_gpa 3.5, total_graded_enrollment 30 and section_count 3
C15_Witness ==
    /\ ag.pc = "done"
    /\ ag.sections = << [gpa |-> <<300>>, graded_enrollment |-> <<10>>],
                        [gpa |-> <<400>>, graded_enrollment |-> <<20>>],
                        [gpa |-> <<>>, graded_enrollment |-> <<>>] >>
    /\ ag.result = [section_count |-> 3, avg_gpa |-> <<3500>>, total_graded_enrollment |-> 30]

(***************************************************************************)
(* Query texts.  A text is the sequence of its words, written with single  *)
(* spaces between them; the tokenizer (spaCy, nlp(text)) yields exactly    *)
(* these words.  Lexicon gives, for every word of the model, what Python   *)
(* computes from its characters: str.upper, str.lower, len, str.isalpha,   *)
(* the digit runs the regular expressions capture, and spaCy's lexical     *)
(* attributes is_stop, is_punct and like_num.                              *)
(***************************************************************************)

\* kind: "alpha" (letters only), "digits" (digits only), "decimal" (d.d),
\*       "mixed" (digit followed by letters), "sym" (one non-word character)
W(up, lo, n, kind, stop) ==
    [upper |-> up, lower |-> lo, len |-> n, kind |-> kind, stop |-> stop, num |-> <<>>]

N(txt, n, v) ==
    [upper |-> txt, lower |-> txt, len |-> n, kind |-> "digits", stop |-> FALSE, num |-> <<v>>]

Lexicon(w) ==
    CASE w = "CS" -> W("CS", "cs", 2, "alpha", FALSE)
      [] w = "MATH" -> W("MATH", "math", 4, "alpha", FALSE)
      [] w = "computer" -> W("COMPUTER", "computer", 8, "alpha", FALSE)
      [] w = "science" -> W("SCIENCE", "science", 7, "alpha", FALSE)
      [] w = "2xxx" -> W("2XXX", "2xxx", 4, "mixed", FALSE)
      [] w = "no" -> W("NO", "no", 2, "alpha", TRUE)
      [] w = "Fs" -> W("FS", "fs", 2, "alpha", FALSE)
      [] w = "%" -> W("%", "%", 1, "sym", FALSE)
      [] w = "+" -> W("+", "+", 1, "sym", FALSE)
      [] w = "\"" -> W("\"", "\"", 1, "sym", FALSE)
      [] w = "A" -> W("A", "a", 1, "alpha", TRUE)
      [] w = "B" -> W("B", "b", 1, "alpha", FALSE)
      [] w = "or" -> W("OR", "or", 2, "alpha", TRUE)
      [] w = "above" -> W("ABOVE", "above", 5, "alpha", TRUE)
      [] w = "more" -> W("MORE", "more", 4, "alpha", TRUE)
      [] w = "than" -> W("THAN", "than", 4, "alpha", TRUE)
      [] w = "students" -> W("STUDENTS", "students", 8, "alpha", FALSE)
      [] w = "got" -> W("GOT", "got", 3, "alpha", FALSE)
      [] w = "an" -> W("AN", "an", 2, "alpha", TRUE)
      [] w = "GPA" -> W("GPA", "gpa", 3, "alpha", FALSE)
      [] w = "3.5" -> W("3.5", "3.5", 3, "decimal", FALSE)
      [] w = "with" -> W("WITH", "with", 4, "alpha", TRUE)
      [] w = "without" -> W("WITHOUT", "without", 7, "alpha", TRUE)
      [] w = "Cao" -> W("CAO", "cao", 3, "alpha", FALSE)
      [] w = "undergrad" -> W("UNDERGRAD", "undergrad", 9, "alpha", FALSE)
      [] w = "level" -> W("LEVEL", "level", 5, "alpha", FALSE)
      [] w = "to" -> W("TO", "to", 2, "alpha", TRUE)
      [] w = "algebra" -> W("ALGEBRA", "algebra", 7, "alpha", FALSE)
      [] w = "between" -> W("BETWEEN", "between", 7, "alpha", TRUE)
      [] w = "and" -> W("AND", "and", 3, "alpha", TRUE)
      [] w = "over" -> W("OVER", "over", 4, "alpha", TRUE)
      [] w = "largest" -> W("LARGEST", "largest", 7, "alpha", FALSE)
      [] w = "smallest" -> W("SMALLEST", "smallest", 8, "alpha", FALSE)
      [] w = "top" -> W("TOP", "top", 3, "alpha", TRUE)
      [] w = "easiest" -> W("EASIEST", "easiest", 7, "alpha", FALSE)
      [] w = "credits" -> W("CREDITS", "credits", 7, "alpha", FALSE)
      [] w = "Fall" -> W("FALL", "fall", 4, "alpha", FALSE)
      [] w = "spring" -> W("SPRING", "spring", 6, "alpha", FALSE)
      [] w = "exclude" -> W("EXCLUDE", "exclude", 7, "alpha", FALSE)
      [] w = "last" -> W("LAST", "last", 4, "alpha", TRUE)
      [] w = "x*1000001" -> W("X*1000001", "x*1000001", 1000001, "alpha", FALSE)
      [] w = "0" -> N("0", 1, 0)
      [] w = "2" -> N("2", 1, 2)
      [] w = "3" -> N("3", 1, 3)
      [] w = "5" -> N("5", 1, 5)
      [] w = "30" -> N("30", 2, 30)
      [] w = "50" -> N("50", 2, 50)
      [] w = "80" -> N("80", 2, 80)
      [] w = "100" -> N("100", 3, 100)
      [] w = "200" -> N("200", 3, 200)
      [] w = "300" -> N("300", 3, 300)
      [] w = "1000" -> N("1000", 4, 1000)
      [] w = "2000" -> N("2000", 4, 2000)
      [] w = "2023" -> N("2023", 4, 2023)
      [] w = "2104" -> N("2104", 4, 2104)
      [] w = "5114" -> N("5114", 4, 5114)

Words ==
    {"CS", "MATH", "computer", "science", "2xxx", "no", "Fs", "%", "+", "\"", "A", "B",
     "or", "above", "more", "than", "students", "got", "an", "GPA", "3.5", "with",
     "without", "Cao", "undergrad", "level", "to", "algebra", "between", "and", "over",
     "largest", "smallest", "top", "easiest", "credits", "Fall", "spring", "exclude",
     "last", "x*1000001", "0", "2", "3", "5", "30", "50", "80", "100", "200", "300", "1000",
     "2000", "2023", "2104", "5114"}

WordUpper(w) == Lexicon(w).upper
WordLower(w) == Lexicon(w).lower
CharLen(w) == Lexicon(w).len
IsAlpha(w) == Lexicon(w).kind = "alpha"
IsDigits(w) == Lexicon(w).kind = "digits"
IntOf(w) == Lexicon(w).num[1]

\* str.upper / str.lower of a phrase, word by word
UpperAll(ws) == [i \in DOMAIN ws |-> WordUpper(ws[i])]
LowerAll(ws) == [i \in DOMAIN ws |-> WordLower(ws[i])]

\* the word is written in capitals only: [A-Z]+
IsAllCaps(w) == IsAlpha(w) /\ WordUpper(w) = w

\* [A-Z][A-Za-z]+ without IGNORECASE: a capital, then at least one more letter
IsCapitalized(w) == IsAlpha(w) /\ CharLen(w) >= 2 /\ w \in {"CS", "MATH", "Fs", "GPA", "Cao", "Fall"}

\* the digits a pattern's (\d+) captures at the start of a word, as <<>> or <<n>>
LeadingDigits(w) ==
    CASE IsDigits(w) -> <<IntOf(w)>>
      [] w = "3.5"   -> <<3>>
      [] w = "2xxx"  -> <<2>>
      [] OTHER       -> <<>>

\* the digits a pattern's (\d+) captures at the end of a word
TrailingDigits(w) ==
    CASE IsDigits(w) -> <<IntOf(w)>>
      [] w = "3.5"   -> <<5>>
      [] OTHER       -> <<>>

\* float(m.group(1)) for (\d\.\d), in hundredths
DecimalOf(w) == IF w = "3.5" THEN <<350>> ELSE <<>>

\* the grade alternation (A\+|A-|A|...|D|F) with IGNORECASE matched at the
\* start of a word, upper-cased; None when the word starts with no grade letter
GradePrefix(w) ==
    CASE w \in {"A", "above", "an", "algebra", "and"}          -> "A"
      [] w \in {"B", "between"}                                -> "B"
      [] w \in {"CS", "computer", "Cao", "credits"}            -> "C"
      [] w \in {"Fs", "Fall"}                                  -> "F"
      [] OTHER                                                 -> None

\* the whole word is one grade, optionally followed by "s"
IsGradeWord(w) == w \in {"A", "B", "Fs"}

\* spaCy: token.is_stop (STOP_WORDS, case-insensitive)
IsStop(w) == Lexicon(w).stop

\* spaCy: token.is_punct
IsPunct(w) == w \in {"%", "\""}

\* spaCy: token.like_num
LikeNum(w) == Lexicon(w).kind \in {"digits", "decimal"}

\* spaCy: token.is_alpha
TokIsAlpha(w) == IsAlpha(w)

\* nlp_parser.py lines 62-133: SUBJECT_STOPWORDS, by upper-cased word
SUBJECT_STOPWORD_EXTRAS ==
    {"WITH", "WITHOUT", "ABOVE", "OVER", "TOP", "LEVEL", "FALL", "SPRING", "GPA", "GOT",
     "STUDENTS", "LARGEST", "SMALLEST", "MORE", "EXCLUDE", "F", "FS"}

InSubjectStopwords(up) ==
    \/ up \in SUBJECT_STOPWORD_EXTRAS
    \/ \E w \in Words : IsStop(w) /\ WordUpper(w) = up

\* needle in word.lower(), for the needles the code looks for: <<word, needle>>
Substrings ==
    { <<"above", "above">>, <<"over", "over">>, <<"undergrad", "under">>,
      <<"GPA", "gpa">>, <<"students", "students">>, <<"top", "top">>,
      <<"largest", "largest">>, <<"smallest", "smallest">>, <<"easiest", "easiest">> }

WordHas(w, needle) == <<w, needle>> \in Substrings

\* needle in text.lower() / needle.upper() in text.upper(), for one-word needles
TextHas(t, needle) == \E i \in DOMAIN t : WordHas(t[i], needle)

\* len(text): the words and the single spaces between them
TextLen(t) == SumSeq([i \in DOMAIN t |-> CharLen(t[i])]) + (IF Len(t) > 0 THEN Len(t) - 1 ELSE 0)

\* spaCy's Language.max_length: nlp(text) raises ValueError for a longer text
NlpMaxLength == 1000000

\* nlp(text) returns a Doc
NlpAccepts(t) == TextLen(t) <= NlpMaxLength

(***************************************************************************)
(* backend/app/main.py : POST /query                                       *)
(***************************************************************************)

\* class QueryFilters (lines 42-51)
MainQueryFilters ==
    [subjects |-> <<>>, course_numbers |-> <<>>, instructors |-> <<>>, terms |-> <<>>,
     course_number_min |-> <<>>, course_number_max |-> <<>>, gpa_min |-> <<>>, gpa_max |-> <<>>]

\* the empty dict
EmptyDict == [k \in {} |-> <<>>]

\* compute_aggregates (lines 122-150)
compute_aggregates_main(sections) ==
    IF sections = <<>> THEN ZeroAggregates
    ELSE LET withGpa == SelectSeq(sections, LAMBDA x : x.gpa # <<>>)
             gpa_sum == SumSeq([i \in 1..Len(withGpa) |-> withGpa[i].gpa[1]])
             gpa_count == Len(withGpa)
         IN [section_count |-> Len(sections),
             avg_gpa |-> IF gpa_count > 0
                         THEN <<(20 * gpa_sum + gpa_count) \div (2 * gpa_count)>>
                         ELSE <<>>,
             total_graded_enrollment |->
                 SumSeq([i \in 1..Len(sections) |->
                             IF sections[i].graded_enrollment # <<>>
                             THEN sections[i].graded_enrollment[1] ELSE 0])]

\* line 183: re.search(r"\b([A-Z]{2,4})\s*([0-9]{4})\b", text_up) at word i:
\* a word of two to four letters followed by a word of four digits
MainPatternAt(t, i) ==
    /\ i + 1 <= Len(t)
    /\ IsAlpha(t[i]) /\ CharLen(t[i]) \in 2..4
    /\ IsDigits(t[i + 1]) /\ CharLen(t[i + 1]) = 4

\* the leftmost match as <<>> or <<(group(1), group(2))>>
MainPatternSearch(t) ==
    LET hits == { i \in DOMAIN t : MainPatternAt(t, i) }
    IN IF hits = {} THEN <<>>
       ELSE LET i == CHOOSE j \in hits : \A k \in hits : j <= k
            IN << <<WordUpper(t[i]), t[i + 1]>> >>

\* lines 221-258: SELECT ... WHERE s.subject_code = %s AND s.course_number = %s
\* ORDER BY s.term_id DESC, s.section_id
MainCourseRows(subject_code, course_number) ==
    OrderRows({ r \in ViewRows : r.subject_code = subject_code /\ r.course_number = course_number },
              "term", "DESC")

\* The file carries an unresolved merge conflict at lines 202-207.  A build
\* either keeps the markers (the module does not import), or takes the
\* "Updated upstream" side (intent=intent) or the "Stashed changes" side
\* (confidence=plan.confidence, intent=plan.intent).
ConflictSides == {"unresolved", "upstream", "stashed"}

ParserModes == {"regex", "ai"}

\* the texts sent to the endpoint
EndpointQueries ==
    { <<>>, <<"CS", "2104">>, <<"MATH", "5114">>, <<"CS">>, <<"Fall", "2023">>,
      <<"CS", "2104", "no", "Fs">>, <<"computer", "science">>, <<"CS", "2104", "MATH", "5114">>,
      <<"with", "Cao">>, <<"x*1000001">> }

\* a QueryResponse
Response(ok, meta, sections, aggregates, subjects, error) ==
    [kind |-> "response", ok |-> ok, meta |-> meta, sections |-> sections,
     aggregates |-> aggregates, subjects |-> subjects, error |-> error]

\* an exception leaving the handler (or the import of the module)
Escaped(e) == [kind |-> "raise", exc |-> e]

EpStart(query, parser_mode, side) ==
    [pc |-> "import", route |-> "/query",
     req |-> [query |-> query, parser_mode |-> parser_mode], side |-> side,
     calls |-> <<>>, tokens |-> <<>>, filters |-> MainQueryFilters, intent |-> None,
     debug |-> EmptyDict, meta |-> <<>>, conn |-> "none", cur |-> "none",
     sections |-> <<>>, subjects |-> None, raised |-> None, result |-> NoOutcome]

\* line 154: GET /healthz takes no input
HealthStart(side) ==
    [pc |-> "import", route |-> "/healthz", side |-> side, calls |-> <<>>,
     conn |-> "none", cur |-> "none", db_ok |-> None, raised |-> None, result |-> NoOutcome]

InitQuery ==
    /\ ep \in { EpStart(q, m, s) : q \in EndpointQueries, m \in ParserModes, s \in ConflictSides }
             \cup { HealthStart(s) : s \in ConflictSides }
    /\ pct = Idle /\ ai = Idle /\ ex = Idle /\ pq = Idle /\ al = Idle /\ ld = Idle /\ ag = Idle

\* import of main.py: the conflict markers of lines 202-207 are a SyntaxError
Q_Import ==
    /\ ep.pc = "import"
    /\ ep' = IF ep.side = "unresolved"
             THEN [ep EXCEPT !.pc = "done", !.raised = "SyntaxError",
                             !.result = Escaped("SyntaxError")]
             ELSE [ep EXCEPT !.pc = IF ep.route = "/healthz" THEN "health" ELSE "nlp"]
    /\ UNCHANGED <<pct, ai, ex, pq, al, ld, ag>>

\* lines 178-179: doc = nlp(req.query); tokens = [t.text for t in doc]
\* (QueryRequest of line 39 has the field query only: parser_mode is dropped)
Q_Tokenize ==
    /\ ep.pc = "nlp"
    /\ LET e == [ep EXCEPT !.calls = Append(@, "nlp")]
       IN ep' = IF NlpAccepts(ep.req.query)
                THEN [e EXCEPT !.pc = "match", !.tokens = ep.req.query]
                ELSE [e EXCEPT !.pc = "done", !.raised = "ValueError",
                               !.result = Escaped("ValueError")]
    /\ UNCHANGED <<pct, ai, ex, pq, al, ld, ag>>

\* lines 180-198: the pattern, filters, debug and intent
Q_Match ==
    /\ ep.pc = "match"
    /\ LET m == MainPatternSearch(ep.req.query)
           debug0 == Put(EmptyDict, "tokens", ep.tokens)
       IN ep' = IF m # <<>>
                THEN [ep EXCEPT !.pc = "meta",
                                !.filters = [MainQueryFilters EXCEPT
                                                !.subjects = <<m[1][1]>>,
                                                !.course_numbers = <<m[1][2]>>],
                                !.debug = Put(debug0, "regex_match",
                                              [subject_code |-> m[1][1], course_number |-> m[1][2]]),
                                !.intent = "course_lookup"]
                ELSE [ep EXCEPT !.pc = "meta", !.debug = debug0, !.intent = "browse_subjects"]
    /\ UNCHANGED <<pct, ai, ex, pq, al, ld, ag>>

\* lines 200-210: meta = QueryMeta(...); the stashed side reads the name plan,
\* which nothing binds
Q_Meta ==
    /\ ep.pc = "meta"
    /\ ep' = IF ep.side = "stashed"
             THEN [ep EXCEPT !.pc = "done", !.raised = "NameError",
                             !.result = Escaped("NameError")]
             ELSE [ep EXCEPT !.pc = "connect",
                             !.meta = <<[query |-> ep.req.query, intent |-> ep.intent,
                                         filters |-> ep.filters, debug |-> ep.debug]>>]
    /\ UNCHANGED <<pct, ai, ex, pq, al, ld, ag>>

\* lines 212-214: try: conn = get_db_conn(); cur = conn.cursor()
Q_Connect ==
    /\ ep.pc = "connect"
    /\ LET e == [ep EXCEPT !.calls = Append(@, "get_db_conn")]
       IN \/ ep' = [e EXCEPT !.pc = "except", !.raised = "OperationalError"]
          \/ ep' = [e EXCEPT !.pc = "execute", !.conn = "open", !.cur = "open"]
    /\ UNCHANGED <<pct, ai, ex, pq, al, ld, ag>>

\* lines 216-358: the course SELECT or the subject list
Q_Execute ==
    /\ ep.pc = "execute"
    /\ LET e == [ep EXCEPT !.calls = Append(@, "cur.execute")]
       IN \/ ep' = [e EXCEPT !.pc = "except", !.raised = "DatabaseError"]
          \/ ep' = IF ep.intent = "course_lookup"
                   THEN [e EXCEPT !.pc = "respond",
                                  !.sections = MainCourseRows(ep.filters.subjects[1],
                                                              ep.filters.course_numbers[1])]
                   ELSE [e EXCEPT !.pc = "respond", !.subjects = SubjectsByCode]
    /\ UNCHANGED <<pct, ai, ex, pq, al, ld, ag>>

\* lines 360-371: cur.close(); conn.close(); the ok response
Q_Respond ==
    /\ ep.pc = "respond"
    /\ ep' = [ep EXCEPT !.pc = "done", !.cur = "closed", !.conn = "closed",
                        !.calls = Append(@, "compute_aggregates"),
                        !.result = Response(TRUE, ep.meta[1], ep.sections,
                                            compute_aggregates_main(ep.sections),
                                            ep.subjects, None)]
    /\ UNCHANGED <<pct, ai, ex, pq, al, ld, ag>>

\* lines 373-385: except Exception as e: the ok=False response
Q_Except ==
    /\ ep.pc = "except"
    /\ ep' = [ep EXCEPT !.pc = "done",
                        !.result = Response(FALSE, ep.meta[1], <<>>, ZeroAggregates,
                                            None, ep.raised)]
    /\ UNCHANGED <<pct, ai, ex, pq, al, ld, ag>>

\* lines 156-158: try: conn = get_db_conn(); cur = conn.cursor()
\* lines 165-166: except Exception: db_ok = False
H_Connect ==
    /\ ep.pc = "health"
    /\ LET e == [ep EXCEPT !.calls = Append(@, "get_db_conn")]
       IN \/ ep' = [e EXCEPT !.pc = "h_return", !.db_ok = FALSE]
          \/ ep' = [e EXCEPT !.pc = "h_select", !.conn = "open", !.cur = "open"]
    /\ UNCHANGED <<pct, ai, ex, pq, al, ld, ag>>

\* lines 159-164: cur.execute("SELECT 1;"); cur.fetchone(); cur.close();
\* conn.close(); db_ok = True; lines 165-166: except Exception: db_ok = False
H_Select ==
    /\ ep.pc = "h_select"
    /\ LET e == [ep EXCEPT !.calls = Append(@, "cur.execute")]
       IN \/ ep' = [e EXCEPT !.pc = "h_return", !.db_ok = FALSE]
          \/ ep' = [e EXCEPT !.pc = "h_return", !.cur = "closed", !.conn = "closed",
                             !.db_ok = TRUE]
    /\ UNCHANGED <<pct, ai, ex, pq, al, ld, ag>>

\* line 168: return {"status": "ok", "db_ok": db_ok}
H_Return ==
    /\ ep.pc = "h_return"
    /\ ep' = [ep EXCEPT !.pc = "done",
                        !.result = [kind |-> "health", status |-> "ok", db_ok |-> ep.db_ok]]
    /\ UNCHANGED <<pct, ai, ex, pq, al, ld, ag>>

NextQuery ==
    \/ Q_Import
    \/ Q_Tokenize
    \/ Q_Match
    \/ Q_Meta
    \/ Q_Connect
    \/ Q_Execute
    \/ Q_Respond
    \/ Q_Except
    \/ H_Connect
    \/ H_Select
    \/ H_Return

SpecQuery == InitQuery /\ [][NextQuery]_vars

EpDone == ep.route = "/query" /\ ep.pc = "done"

\* C3: with parser_mode "ai" the AI parser is invoked, and when it yields no
\* plan (the model never hands one back to this handler) the response's
\* meta.debug carries ai_fallback_used = false; with parser_mode "regex" the AI
\* parser is not invoked.
C3_ParserSelection ==
    EpDone =>
        /\ ep.req.parser_mode = "regex" =>
                \A i \in DOMAIN ep.calls : ep.calls[i] # "ai_fallback_parse_query_to_plan"
        /\ ep.req.parser_mode = "ai" =>
                /\ \E i \in DOMAIN ep.calls : ep.calls[i] = "ai_fallback_parse_query_to_plan"
                /\ ep.result.kind = "response"
                /\ "ai_fallback_used" \in DOMAIN ep.result.meta.debug
                /\ ep.result.meta.debug["ai_fallback_used"] = FALSE

\* C4: no failure escapes POST /query: a request whose handling raised ends in
\* a QueryResponse with ok=false, no sections, zeroed aggregates, subjects null,
\* the failure text as error and meta populated.
C4_FailureBecomesResponse ==
    (EpDone /\ ep.raised # None) =>
        /\ ep.result.kind = "response"
        /\ ep.result.ok = FALSE
        /\ ep.result.sections = <<>>
        /\ ep.result.aggregates = ZeroAggregates
        /\ ep.result.subjects = None
        /\ ep.result.error = ep.raised
        /\ ep.result.meta.query = ep.req.query

\* C11: the health check and the query endpoint release the connection and
\* the cursor they opened before they return, also when the query or a later
\* step fails after the connection was opened.
C11_ConnectionReleasedOnReturn ==
    ep.pc = "done" => (ep.conn # "open" /\ ep.cur # "open")

(***************************************************************************)
(* backend/app/nlp_parser.py : parse_query_to_plan                         *)
(*                                                                         *)
(* A string the parser builds from several words (an instructor name, a    *)
(* quoted phrase, a term label) is the sequence of those words.  The       *)
(* regular expressions are matched word by word: \s+ is the single space   *)
(* between two words, and a group that may match only part of a word is    *)
(* given by the Lexicon operators (LeadingDigits, GradePrefix, ...).       *)
(***************************************************************************)

SeasonWords == {"fall", "spring", "summer"}

\* str.title() of a season word
Title(season) ==
    CASE season = "fall" -> "Fall" [] season = "spring" -> "Spring" [] OTHER -> "Summer"

\* f"20{year_raw[-2:]}" if len(year_raw) == 2 else year_raw
YearFull(w) ==
    IF CharLen(w) = 2
    THEN (CASE w = "30" -> "2030" [] w = "50" -> "2050" [] w = "80" -> "2080" [] OTHER -> w)
    ELSE w

\* the tagger's verdict on a token is an input: tg.desc are the words whose
\* pos_ is one of ADP, AUX, DET, SCONJ, CCONJ, PART, ADV, PRON, INTJ, and
\* tg.persons the words doc.ents labels PERSON
_is_descriptor(w, tg) == IsPunct(w) \/ LikeNum(w) \/ IsStop(w) \/ w \in tg.desc

\* _add_signal(debug, name)
_add_signal(c, name) == [c EXCEPT !.signals = Append(@, name)]

\* _normalize_level_range
_normalize_level_range(level_num) ==
    IF level_num < 1000
    THEN <<(level_num \div 100) * 100, (level_num \div 100) * 100 + 99>>
    ELSE <<(level_num \div 1000) * 1000, (level_num \div 1000) * 1000 + 999>>

\* _dedupe of lines 274-281: first occurrences, in order
_dedupe(seq) ==
    LET F[i \in 0..Len(seq)] ==
            IF i = 0 THEN <<>>
            ELSE IF seq[i] \in Range(F[i - 1]) THEN F[i - 1] ELSE Append(F[i - 1], seq[i])
    IN F[Len(seq)]

\* the first occurrence of every lower-cased phrase, in order (lines 353-360, 508-515)
DedupeLower(seq) ==
    LET F[i \in 0..Len(seq)] ==
            IF i = 0 THEN <<>>
            ELSE IF \E j \in DOMAIN F[i - 1] : LowerAll(F[i - 1][j]) = LowerAll(seq[i])
                 THEN F[i - 1] ELSE Append(F[i - 1], seq[i])
    IN F[Len(seq)]

\* m[k] = v on a dict kept as a sequence of <<key, value>>
MapPut(m, k, v) ==
    IF \E i \in DOMAIN m : m[i][1] = k
    THEN [i \in DOMAIN m |-> IF m[i][1] = k THEN <<k, v>> ELSE m[i]]
    ELSE Append(m, <<k, v>>)

\* the least element of a non-empty set of positions: where re.search matches
First(S) == CHOOSE i \in S : \A j \in S : i <= j

\* word i exists and its lower-cased form is one of ws
Is(t, i, ws) == i \in DOMAIN t /\ WordLower(t[i]) \in ws

\* word i is a run of digits of one of the given lengths
IsNumber(t, i, lens) == i \in DOMAIN t /\ IsDigits(t[i]) /\ CharLen(t[i]) \in lens

\* _normalize_phrase(text).split() as a set: lower case, punctuation to spaces
NormalizedWords(t) ==
    UNION { IF Lexicon(t[i]).kind = "sym" THEN {}
            ELSE IF t[i] = "3.5" THEN {"3", "5"}
            ELSE {WordLower(t[i])} : i \in DOMAIN t }

\* the rows _load_subject_aliases reads: phrase (as words), its length, code
AliasRows ==
    { [words |-> <<"mathematics">>, len |-> 11, code |-> "MATH"],
      [words |-> <<"computer", "science">>, len |-> 16, code |-> "CS"] }

\* the state the rules work on: filters, debug and the locals of the function
ParseStart(t, tg, cache) ==
    [t |-> t, tg |-> tg, cache |-> cache, f |-> EmptyFilters,
     signals |-> <<>>, filtered_out |-> EmptyDict, excluded_terms_only |-> <<>>,
     relative_term |-> <<>>, rank_enrollment |-> <<>>,
     alias_matched_words |-> {}, has_single_course_match |-> FALSE,
     instructor_names |-> <<>>, limit_val |-> <<>>, sort_by |-> None, sort_order |-> None]

\* lines 234-263: subject alias by overlap with the subject names
RuleAlias(c) ==
    LET qw == NormalizedWords(c.t)
        Overlap(a) == Cardinality(Range(a.words) \cap qw)
        ok == { a \in c.cache : Overlap(a) > 0 /\ (Len(a.words) > 1 => Overlap(a) >= 2) }
        Better(a, b) == \/ Overlap(a) > Overlap(b)
                        \/ Overlap(a) = Overlap(b) /\ Len(a.words) > Len(b.words)
        Same(a, b) == Overlap(a) = Overlap(b) /\ Len(a.words) = Len(b.words)
    IN IF ok = {} THEN c
       ELSE LET best == CHOOSE a \in ok :
                            \A b \in ok : Better(a, b) \/ (Same(a, b) /\ a.len >= b.len)
            IN _add_signal([c EXCEPT !.alias_matched_words = Range(best.words),
                                     !.f.subjects = <<best.code>>],
                           "subject_alias")

\* SUBJECT_COURSE_RE (line 16) on upper_text at word i
SubjectCourseAt(t, i) ==
    /\ i + 1 <= Len(t)
    /\ IsAlpha(t[i]) /\ CharLen(t[i]) \in 2..4
    /\ IsNumber(t, i + 1, {4})

\* lines 265-297: every SUBJECT + number pair whose subject is no stopword
RuleSubjectCourse(c) ==
    LET t == c.t
        hits == SelectSeq([i \in DOMAIN t |-> i],
                          LAMBDA i : SubjectCourseAt(t, i) /\ ~InSubjectStopwords(WordUpper(t[i])))
        subs == _dedupe([k \in DOMAIN hits |-> WordUpper(t[hits[k]])])
        nums == _dedupe([k \in DOMAIN hits |-> t[hits[k] + 1]])
    IN IF hits = <<>> THEN c
       ELSE _add_signal([c EXCEPT !.f.subjects = subs, !.f.course_numbers = nums,
                                  !.has_single_course_match = (Len(hits) = 1)],
                        IF Len(hits) = 1 THEN "subject_course" ELSE "subject_courses")

\* PLACEHOLDER_RANGE_RE (line 20): capitals, then a digit and xxx
PlaceholderAt(t, i) ==
    /\ i + 1 <= Len(t)
    /\ IsAllCaps(t[i]) /\ CharLen(t[i]) \in 2..4
    /\ t[i + 1] = "2xxx"

\* lines 298-308
RulePlaceholder(c) ==
    LET hits == { i \in DOMAIN c.t : PlaceholderAt(c.t, i) }
    IN IF c.f.subjects # <<>> \/ hits = {} THEN c
       ELSE LET i == First(hits)
                base == LeadingDigits(c.t[i + 1])[1] * 1000
            IN _add_signal([c EXCEPT !.f.subjects = <<WordUpper(c.t[i])>>,
                                     !.f.course_number_min = <<base>>,
                                     !.f.course_number_max = <<base + 999>>,
                                     !.f.course_numbers = <<>>],
                           "course_placeholder")

\* the candidate of the subject-only fallback (lines 312-319, 683-690)
SubjectCandidate(c) ==
    LET ok == { i \in DOMAIN c.t :
                  /\ ~_is_descriptor(c.t[i], c.tg)
                  /\ IsAlpha(c.t[i]) /\ CharLen(c.t[i]) \in 2..4
                  /\ ~InSubjectStopwords(WordUpper(c.t[i])) }
    IN IF ok = {} THEN <<>> ELSE <<WordUpper(c.t[First(ok)])>>

\* lines 310-322
RuleSubjectOnly(c) ==
    IF c.f.subjects # <<>> \/ SubjectCandidate(c) = <<>> THEN c
    ELSE _add_signal([c EXCEPT !.f.subjects = SubjectCandidate(c)], "subject_only")

\* lines 327-330: the phrases between successive pairs of double quotes
RECURSIVE QuotedPhrases(_, _)
QuotedPhrases(t, from) ==
    LET opens == { i \in from..Len(t) : t[i] = "\"" }
    IN IF opens = {} THEN <<>>
       ELSE LET a == First(opens)
                closes == { j \in (a + 1)..Len(t) : t[j] = "\"" }
            IN IF closes = {} THEN <<>>
               ELSE LET b == First(closes)
                    IN <<SubSeq(t, a + 1, b - 1)>> \o QuotedPhrases(t, b + 1)

\* lines 332-351: a token that is kept as a title keyword
IsTitleToken(c, w) ==
    /\ ~_is_descriptor(w, c.tg) /\ ~LikeNum(w)
    /\ w # "2xxx"
    /\ ~InSubjectStopwords(WordUpper(w))
    /\ WordUpper(w) \notin Range(c.f.subjects)
    /\ WordLower(w) \notin c.alias_matched_words
    /\ CharLen(w) >= 3

\* lines 324-363
RuleTitle(c) ==
    LET leftover == SelectSeq(c.t, LAMBDA w : IsTitleToken(c, w))
        title_terms == QuotedPhrases(c.t, 1) \o [i \in DOMAIN leftover |-> <<leftover[i]>>]
        deduped_terms == DedupeLower(title_terms)
    IN IF deduped_terms = <<>> THEN c
       ELSE _add_signal([c EXCEPT !.f.course_title_contains = deduped_terms], "course_title")

\* start, end = end, start when start > end
Ordered(a, b) == IF a > b THEN <<b, a>> ELSE <<a, b>>

\* COURSE_BETWEEN_RE (line 21) at word i
CourseBetweenAt(t, i) ==
    /\ Is(t, i, {"between"}) /\ IsNumber(t, i + 1, {3, 4})
    /\ Is(t, i + 2, {"and", "to"}) /\ IsNumber(t, i + 3, {3, 4})

\* RANGE_RE (line 19) at word i
RangeAt(t, i) ==
    /\ IsNumber(t, i, {3, 4}) /\ Is(t, i + 1, {"to", "-"}) /\ IsNumber(t, i + 2, {3, 4})

\* LEVEL_RE (line 17) and LEVEL_AFTER_RE (line 18) at word i
LevelAt(t, i) == IsNumber(t, i, {3, 4}) /\ Is(t, i + 1, {"level"})
LevelAfterAt(t, i) == Is(t, i, {"level"}) /\ IsNumber(t, i + 1, {3, 4})

\* lines 365-387: between, else X to Y, else a level
RuleCourseRange(c) ==
    LET t == c.t
        between_rng == { i \in DOMAIN t : CourseBetweenAt(t, i) }
        rng == { i \in DOMAIN t : RangeAt(t, i) }
        lvl1 == { i \in DOMAIN t : LevelAt(t, i) }
        lvl2 == { i \in DOMAIN t : LevelAfterAt(t, i) }
    IN IF between_rng # {}
       THEN LET i == First(between_rng)
                r == Ordered(IntOf(t[i + 1]), IntOf(t[i + 3]))
            IN _add_signal([c EXCEPT !.f.course_number_min = <<r[1]>>,
                                     !.f.course_number_max = <<r[2]>>], "course_between")
       ELSE IF rng # {}
       THEN LET i == First(rng)
                r == Ordered(IntOf(t[i]), IntOf(t[i + 2]))
            IN _add_signal([c EXCEPT !.f.course_number_min = <<r[1]>>,
                                     !.f.course_number_max = <<r[2]>>], "course_range")
       ELSE IF lvl1 # {} \/ lvl2 # {}
       THEN LET raw == IF lvl1 # {} THEN IntOf(t[First(lvl1)])
                       ELSE IntOf(t[First(lvl2) + 1])
                r == _normalize_level_range(raw)
            IN _add_signal([c EXCEPT !.f.course_number_min = <<r[1]>>,
                                     !.f.course_number_max = <<r[2]>>], "level_range")
       ELSE c

\* the parser without lines 388-390
RuleRangeKeepsNumbers(c) == c

\* lines 388-390: a range drops the exact course number
RuleRangeDropsNumbers(c) ==
    IF c.f.course_number_min # <<>> \/ c.f.course_number_max # <<>>
    THEN [c EXCEPT !.f.course_numbers = <<>>]
    ELSE c

\* the comparators of GPA_HIGH_RE (line 22) and GPA_LOW_RE (line 23), upper case
GpaHighWords ==
    { <<"ABOVE">>, <<"OVER">>, <<">">>, <<">=">>, <<"GREATER">>, <<"GREATER", "THAN">>,
      <<"HIGHER">>, <<"HIGHER", "THAN">>, <<"OR", "MORE">>, <<"OR", "HIGHER">> }
GpaLowWords ==
    { <<"BELOW">>, <<"UNDER">>, <<"<">>, <<"<=">>, <<"LESS">>, <<"LESS", "THAN">>,
      <<"LOWER">>, <<"LOWER", "THAN">>, <<"OR", "LESS">>, <<"OR", "LOWER">> }

\* GPA\s*(?:<comparator>)\s*(\d\.\d) at word i: the position of the number, or 0
GpaAt(t, i, comparators) ==
    IF i \in DOMAIN t /\ WordUpper(t[i]) = "GPA"
    THEN LET ends == { i + Len(p) + 1 : p \in
                         { q \in comparators :
                             /\ i + Len(q) + 1 <= Len(t)
                             /\ UpperAll(SubSeq(t, i + 1, i + Len(q))) = q
                             /\ DecimalOf(t[i + Len(q) + 1]) # <<>> } }
         IN IF ends = {} THEN 0 ELSE First(ends)
    ELSE 0

\* line 397: GPA[^0-9]{0,6}(\d\.\d) at word i: the position of the number, or 0
GpaRawAt(t, i) ==
    IF i \in DOMAIN t /\ WordUpper(t[i]) = "GPA"
    THEN IF i + 1 <= Len(t) /\ DecimalOf(t[i + 1]) # <<>> THEN i + 1
         ELSE IF /\ i + 2 <= Len(t) /\ DecimalOf(t[i + 2]) # <<>>
                 /\ LeadingDigits(t[i + 1]) = <<>> /\ TrailingDigits(t[i + 1]) = <<>>
                 /\ CharLen(t[i + 1]) + 2 <= 6
              THEN i + 2 ELSE 0
    ELSE 0

\* the characters the code looks at after the match: text[... : end + 15]
SurroundingTail == 15

\* line 400: needle in text[start : end + 15].lower(), the match being words i..j
InSurrounding(t, i, j, needle, needleLen) ==
    \E k \in i..Len(t) :
        /\ WordHas(t[k], needle)
        /\ k > j => SumSeq([m \in 1..(k - j - 1) |-> CharLen(t[j + m]) + 1]) + 1 + needleLen
                        <= SurroundingTail

\* GPA_HIGH_RE.search / GPA_LOW_RE.search: the words where the pattern matches
GpaMatches(t, comparators) == { i \in DOMAIN t : GpaAt(t, i, comparators) # 0 }

\* lines 395-398: the raw pattern is tried when neither comparator pattern matched
GpaRawMatch(t) ==
    IF GpaMatches(t, GpaHighWords) = {} /\ GpaMatches(t, GpaLowWords) = {}
    THEN { i \in DOMAIN t : GpaRawAt(t, i) # 0 }
    ELSE {}

\* raw_gpa (line 399), in hundredths
GpaRawValue(t) == DecimalOf(t[GpaRawAt(t, First(GpaRawMatch(t)))])

\* line 401 (of the words the code looks for, the words of the model contain
\* "above" and "over")
GpaRawHigh(t) ==
    /\ GpaRawMatch(t) # {}
    /\ \/ InSurrounding(t, First(GpaRawMatch(t)), GpaRawAt(t, First(GpaRawMatch(t))), "above", 5)
       \/ InSurrounding(t, First(GpaRawMatch(t)), GpaRawAt(t, First(GpaRawMatch(t))), "over", 4)

\* line 403 (of the words the code looks for, the words of the model contain "under")
GpaRawLow(t) ==
    /\ GpaRawMatch(t) # {}
    /\ ~GpaRawHigh(t)
    /\ InSurrounding(t, First(GpaRawMatch(t)), GpaRawAt(t, First(GpaRawMatch(t))), "under", 5)

\* lines 392-408: a GPA without a comparator is a minimum
RuleGpaRaw(c) ==
    IF GpaRawMatch(c.t) # {} /\ ~GpaRawHigh(c.t) /\ ~GpaRawLow(c.t)
    THEN _add_signal([c EXCEPT !.f.gpa_min = GpaRawValue(c.t)], "gpa_min")
    ELSE c

\* lines 410-415
RuleGpaAbove(c) ==
    IF GpaMatches(c.t, GpaHighWords) # {}
    THEN _add_signal([c EXCEPT !.f.gpa_min =
                          DecimalOf(c.t[GpaAt(c.t, First(GpaMatches(c.t, GpaHighWords)),
                                              GpaHighWords)])], "gpa_min")
    ELSE IF GpaRawHigh(c.t)
    THEN _add_signal([c EXCEPT !.f.gpa_min = GpaRawValue(c.t)], "gpa_min")
    ELSE c

\* lines 416-421
RuleGpaBelow(c) ==
    IF GpaMatches(c.t, GpaLowWords) # {}
    THEN _add_signal([c EXCEPT !.f.gpa_max =
                          DecimalOf(c.t[GpaAt(c.t, First(GpaMatches(c.t, GpaLowWords)),
                                              GpaLowWords)])], "gpa_max")
    ELSE IF GpaRawLow(c.t)
    THEN _add_signal([c EXCEPT !.f.gpa_max = GpaRawValue(c.t)], "gpa_max")
    ELSE c

\* CREDIT_RE (line 29) at word i: (\d{1,2}) takes the last two digits
CreditAt(t, i) ==
    /\ i \in DOMAIN t /\ TrailingDigits(t[i]) # <<>>
    /\ i + 1 <= Len(t) /\ WordUpper(t[i + 1]) \in {"CREDIT", "CREDITS", "CR"}

\* lines 423-437 (of the words the code looks for in the lower-cased text, the
\* words of the model contain "over", "above" and "under")
RuleCredits(c) ==
    LET t == c.t
        hits == { i \in DOMAIN t : CreditAt(t, i) }
        credits_val == TrailingDigits(t[First(hits)])[1] % 100
    IN IF hits = {} THEN c
       ELSE IF TextHas(t, "over") \/ TextHas(t, "above")
       THEN _add_signal([c EXCEPT !.f.credits_min = <<credits_val>>], "credits_min")
       ELSE IF TextHas(t, "under")
       THEN _add_signal([c EXCEPT !.f.credits_max = <<credits_val>>], "credits_max")
       ELSE _add_signal([c EXCEPT !.f.credits_min = <<credits_val>>,
                                  !.f.credits_max = <<credits_val>>], "credits_exact")

EnrollmentNouns == {"enrollment", "students", "people"}

\* ENROLLMENT_RE (line 30) and ENROLLMENT_LOW_RE (line 31) at word i
EnrollmentAt(t, i, comparators) ==
    /\ Is(t, i, EnrollmentNouns) /\ Is(t, i + 1, comparators)
    /\ i + 2 <= Len(t) /\ LeadingDigits(t[i + 2]) # <<>>

\* ENROLLMENT_BETWEEN_RE (line 49) at word i
EnrollmentBetweenAt(t, i) ==
    /\ Is(t, i, {"between", "from"}) /\ IsNumber(t, i + 1, 1..7)
    /\ Is(t, i + 2, {"and", "to"}) /\ IsNumber(t, i + 3, 1..7)
    /\ Is(t, i + 4, {"students", "people"})

\* ENROLLMENT_BETWEEN_ALT_RE (line 53) at word i
EnrollmentBetweenAltAt(t, i) ==
    /\ Is(t, i, EnrollmentNouns) /\ Is(t, i + 1, {"between", "from"})
    /\ IsNumber(t, i + 2, 1..7) /\ Is(t, i + 3, {"and", "to"})
    /\ i + 4 <= Len(t) /\ LeadingDigits(t[i + 4]) # <<>>

\* ENROLLMENT_PLUS_RE (line 57) at word i
EnrollmentPlusAt(t, i) ==
    /\ i \in DOMAIN t /\ TrailingDigits(t[i]) # <<>>
    /\ Is(t, i + 1, {"+"}) /\ Is(t, i + 2, {"students", "people"})

\* lines 439-450
RuleEnrollmentBetween(c) ==
    LET t == c.t
        between1 == { i \in DOMAIN t : EnrollmentBetweenAt(t, i) }
        between2 == { i \in DOMAIN t : EnrollmentBetweenAltAt(t, i) }
    IN IF between1 # {}
       THEN LET i == First(between1)
                r == Ordered(IntOf(t[i + 1]), IntOf(t[i + 3]))
            IN _add_signal([c EXCEPT !.f.enrollment_min = <<r[1]>>,
                                     !.f.enrollment_max = <<r[2]>>], "enrollment_between")
       ELSE IF between2 # {}
       THEN LET i == First(between2)
                r == Ordered(IntOf(t[i + 2]), LeadingDigits(t[i + 4])[1])
            IN _add_signal([c EXCEPT !.f.enrollment_min = <<r[1]>>,
                                     !.f.enrollment_max = <<r[2]>>], "enrollment_between")
       ELSE c

\* lines 451-453
RuleEnrollmentHigh(c) ==
    LET enroll_hi == { i \in DOMAIN c.t : EnrollmentAt(c.t, i, {"above", "over", ">", ">="}) }
    IN IF enroll_hi # {}
       THEN _add_signal([c EXCEPT !.f.enrollment_min =
                             LeadingDigits(c.t[First(enroll_hi) + 2])], "enrollment_min")
       ELSE c

\* lines 454-456
RuleEnrollmentLow(c) ==
    LET enroll_lo == { i \in DOMAIN c.t : EnrollmentAt(c.t, i, {"below", "under", "<", "<="}) }
    IN IF enroll_lo # {}
       THEN _add_signal([c EXCEPT !.f.enrollment_max =
                             LeadingDigits(c.t[First(enroll_lo) + 2])], "enrollment_max")
       ELSE c

\* lines 457-459
RuleEnrollmentPlus(c) ==
    LET enroll_plus == { i \in DOMAIN c.t : EnrollmentPlusAt(c.t, i) }
    IN IF enroll_plus # {} /\ c.f.enrollment_min = <<>>
       THEN _add_signal([c EXCEPT !.f.enrollment_min =
                             TrailingDigits(c.t[First(enroll_plus)])], "enrollment_min")
       ELSE c

\* the last word of the longest run of words satisfying P that starts at i
\* (i - 1 when word i does not satisfy P)
RunEnd(t, i, P(_)) ==
    LET ends == { j \in (i - 1)..Len(t) : \A k \in i..j : P(t[k]) }
    IN CHOOSE j \in ends : \A k \in ends : k <= j

\* [A-Z][A-Za-z]+ under IGNORECASE: a word of at least two letters
IsNameWord(w) == IsAlpha(w) /\ CharLen(w) >= 2

\* INSTRUCTOR_RE.findall(text) (line 28) from word i on
RECURSIVE InstructorFindall(_, _)
InstructorFindall(t, i) ==
    IF i > Len(t) THEN <<>>
    ELSE IF Is(t, i, {"with", "by"}) /\ RunEnd(t, i + 1, IsNameWord) >= i + 1
         THEN <<SubSeq(t, i + 1, RunEnd(t, i + 1, IsNameWord))>>
                 \o InstructorFindall(t, RunEnd(t, i + 1, IsNameWord) + 1)
         ELSE InstructorFindall(t, i + 1)

\* line 469
BadNameParts == {"gpa", "enrollment", "students", "people", "class", "classes"}

\* lines 487-502: a token the fallback takes for (part of) a name
IsFallbackName(c, w) ==
    /\ WordLower(w) \notin c.alias_matched_words
    /\ ~_is_descriptor(w, c.tg)
    /\ TokIsAlpha(w)
    /\ CharLen(w) >= 3
    /\ ~InSubjectStopwords(WordUpper(w))
    /\ WordUpper(w) \notin Range(c.f.subjects)

\* lines 461-517
RuleInstructors(c) ==
    LET t == c.t
        persons == SelectSeq(t, LAMBDA w : w \in c.tg.persons)
        found == [i \in DOMAIN persons |-> <<persons[i]>>] \o InstructorFindall(t, 1)
        notBad == SelectSeq(found, LAMBDA name :
                      ~\E k \in DOMAIN name : \E bad \in BadNameParts : WordHas(name[k], bad))
        cleaned == SelectSeq(notBad, LAMBDA name :
                      /\ ~(\A k \in DOMAIN name : WordLower(name[k]) \in c.alias_matched_words)
                      /\ ~(\E k \in DOMAIN name :
                              InSubjectStopwords(WordUpper(name[k])) \/ IsStop(name[k])))
        candidates == SelectSeq(t, LAMBDA w : IsFallbackName(c, w))
        fallback == IF Len(candidates) <= 2 THEN candidates
                    ELSE SubSeq(candidates, Len(candidates) - 1, Len(candidates))
        instructor_names == IF cleaned # <<>> THEN cleaned
                            ELSE [i \in DOMAIN fallback |-> <<fallback[i]>>]
    IN IF instructor_names = <<>> THEN c
       ELSE _add_signal([c EXCEPT !.instructor_names = instructor_names,
                                  !.f.instructors = DedupeLower(instructor_names)],
                        "instructor")

\* lines 519-540: title keywords that are parts of an instructor name are dropped
RuleTitleVsInstructor(c) ==
    LET instructor_terms ==
            UNION { { <<WordLower(c.instructor_names[i][k])>> :
                          k \in DOMAIN c.instructor_names[i] } : i \in DOMAIN c.instructor_names }
        titles == c.f.course_title_contains
        filtered_titles == SelectSeq(titles, LAMBDA term : LowerAll(term) \notin instructor_terms)
        dropped_titles == SelectSeq(titles, LAMBDA term : LowerAll(term) \in instructor_terms)
    IN IF titles = <<>> \/ c.instructor_names = <<>> THEN c
       ELSE IF dropped_titles = <<>> THEN [c EXCEPT !.f.course_title_contains = filtered_titles]
       ELSE [c EXCEPT !.f.course_title_contains = filtered_titles,
                      !.filtered_out = Extend(@, "course_title_contains", dropped_titles)]

\* GRADE_COUNT_RE (line 32) at word i
GradeCountAt(t, i) ==
    /\ i \in DOMAIN t /\ TrailingDigits(t[i]) # <<>>
    /\ Is(t, i + 1, {"students", "people"}) /\ Is(t, i + 2, {"got", "received", "with"})
    /\ Is(t, i + 3, {"a", "an"})
    /\ i + 4 <= Len(t) /\ GradePrefix(t[i + 4]) # None

\* lines 542-548
RuleGradeCount(c) ==
    LET hits == { i \in DOMAIN c.t : GradeCountAt(c.t, i) }
        i == First(hits)
    IN IF hits = {} THEN c
       ELSE _add_signal([c EXCEPT !.f.grade_min =
                             MapPut(@, GradePrefix(c.t[i + 4]), TrailingDigits(c.t[i])[1])],
                        "grade_min")

\* the one-letter grades: a word that is exactly a grade
IsGradeLetter(w) == w \in {"A", "B"}

\* (?:an?\s*)?(GRADE) matched inside one word: "an" then "d", "a" then "b"
ArticleThenGrade(w) == CASE w = "and" -> "D" [] w = "above" -> "B" [] OTHER -> None

\* GRADE_PERCENT_RE (line 36) after the % sign, from word j on: the optional
\* article is tried first, then the grade at the start of the word.
\* <<>> or <<[grade, pos, whole]>>, whole meaning the grade ends its word
PercentGradeArticle(t, j) ==
    IF j \notin DOMAIN t THEN <<>>
    ELSE IF Is(t, j, {"a", "an"}) /\ j + 1 <= Len(t) /\ GradePrefix(t[j + 1]) # None
    THEN <<[grade |-> GradePrefix(t[j + 1]), pos |-> j + 1, whole |-> IsGradeLetter(t[j + 1])]>>
    ELSE IF ArticleThenGrade(t[j]) # None
    THEN <<[grade |-> ArticleThenGrade(t[j]), pos |-> j, whole |-> FALSE]>>
    ELSE IF GradePrefix(t[j]) # None
    THEN <<[grade |-> GradePrefix(t[j]), pos |-> j, whole |-> IsGradeLetter(t[j])]>>
    ELSE <<>>

\* ... the optional verb (got|received|are|have) in front of it
PercentGradeVerb(t, j) ==
    IF Is(t, j, {"got", "received", "are", "have"}) /\ PercentGradeArticle(t, j + 1) # <<>>
    THEN PercentGradeArticle(t, j + 1)
    ELSE PercentGradeArticle(t, j)

\* ... and the optional "of students" / "of the class" in front of that
PercentGradeFrom(t, j) ==
    IF Is(t, j, {"of"}) /\ Is(t, j + 1, {"students"}) /\ PercentGradeVerb(t, j + 2) # <<>>
    THEN PercentGradeVerb(t, j + 2)
    ELSE IF /\ Is(t, j, {"of"}) /\ Is(t, j + 1, {"the"}) /\ Is(t, j + 2, {"class"})
            /\ PercentGradeVerb(t, j + 3) # <<>>
    THEN PercentGradeVerb(t, j + 3)
    ELSE PercentGradeVerb(t, j)

\* [^\w]* after the % sign: the first word from j on that is no symbol (0 if none)
SkipSymbols(t, j) ==
    LET rest == { k \in j..Len(t) : Lexicon(t[k]).kind # "sym" }
    IN IF rest = {} THEN 0 ELSE First(rest)

\* GRADE_PERCENT_RE at word i: (\d{1,3}) takes the last three digits
PercentAt(t, i) ==
    /\ i \in DOMAIN t /\ TrailingDigits(t[i]) # <<>>
    /\ Is(t, i + 1, {"%"})
    /\ PercentGradeFrom(t, SkipSymbols(t, i + 2)) # <<>>

\* lines 550-560
RuleGradePercent(c) ==
    LET t == c.t
        hits == { i \in DOMAIN t : PercentAt(t, i) }
        i == First(hits)
        percent == TrailingDigits(t[i])[1] % 1000
        g == PercentGradeFrom(t, SkipSymbols(t, i + 2))[1]
        or_above == /\ g.whole /\ Is(t, g.pos + 1, {"or"})
                    /\ Is(t, g.pos + 2, {"above", "higher"})
    IN IF hits = {} THEN c
       ELSE IF or_above /\ g.grade = "B"
       THEN _add_signal([c EXCEPT !.f.b_or_above_percent_min = <<percent>>], "b_or_above_pct")
       ELSE _add_signal([c EXCEPT !.f.grade_min_percent = MapPut(@, g.grade, percent)],
                        "grade_min_percent")

\* NO_GRADES_RE (line 41) at word i
NoGradesAt(t, i) == Is(t, i, {"no"}) /\ i + 1 <= Len(t) /\ GradePrefix(t[i + 1]) # None

\* the grades of group(1), split at "or": word i starts with a grade
RECURSIVE NoGradesParts(_, _)
NoGradesParts(t, i) ==
    <<GradePrefix(t[i])>>
        \o (IF /\ IsGradeWord(t[i]) /\ Is(t, i + 1, {"or"})
               /\ i + 2 <= Len(t) /\ GradePrefix(t[i + 2]) # None
            THEN NoGradesParts(t, i + 2) ELSE <<>>)

\* lines 562-570
RuleNoGrades(c) ==
    LET hits == { i \in DOMAIN c.t : NoGradesAt(c.t, i) }
        parts == NoGradesParts(c.t, First(hits) + 1)
        F[k \in 0..Len(parts)] ==
            IF k = 0 THEN c.f.grade_max ELSE MapPut(F[k - 1], parts[k], 0)
    IN IF hits = {} THEN c
       ELSE _add_signal([c EXCEPT !.f.grade_max = F[Len(parts)]], "grade_max_zero")

\* GRADE_COMPARE_RE (line 45) at word i
GradeCompareAt(t, i) ==
    /\ Is(t, i, {"more", "less", "fewer"})
    /\ i + 1 <= Len(t) /\ IsGradeLetter(t[i + 1])
    /\ Is(t, i + 2, {"than"})
    /\ i + 3 <= Len(t) /\ GradePrefix(t[i + 3]) # None

\* lines 572-579
RuleGradeCompare(c) ==
    LET hits == { i \in DOMAIN c.t : GradeCompareAt(c.t, i) }
        i == First(hits)
    IN IF hits = {} THEN c
       ELSE _add_signal([c EXCEPT !.f.grade_compare =
                             Append(@, [left |-> GradePrefix(c.t[i + 1]),
                                        right |-> GradePrefix(c.t[i + 3]),
                                        op |-> IF WordLower(c.t[i]) \in {"less", "fewer"}
                                               THEN "<" ELSE ">"])],
                        "grade_compare")

\* line 582: re.findall(r"\b(?:not|without|exclude)\s+([A-Z][A-Za-z]+(?:\s+...)*)", text)
RECURSIVE ExcludeFindall(_, _)
ExcludeFindall(t, i) ==
    IF i > Len(t) THEN <<>>
    ELSE IF t[i] \in {"not", "without", "exclude"} /\ RunEnd(t, i + 1, IsCapitalized) >= i + 1
         THEN <<SubSeq(t, i + 1, RunEnd(t, i + 1, IsCapitalized))>>
                 \o ExcludeFindall(t, RunEnd(t, i + 1, IsCapitalized) + 1)
         ELSE ExcludeFindall(t, i + 1)

\* lines 581-593
RuleExcludeInstructors(c) ==
    LET cleaned == SelectSeq(ExcludeFindall(c.t, 1), LAMBDA name :
                       ~(Len(name) = 1 /\ (InSubjectStopwords(WordUpper(name[1]))
                                             \/ IsStop(name[1]))))
    IN IF cleaned = <<>> THEN c
       ELSE _add_signal([c EXCEPT !.f.exclude_instructors = cleaned], "exclude_instructors")

\* <Season> '?(\d{2}|\d{4}) at word i (lines 24 and 595)
SeasonYearAt(t, i) == Is(t, i, SeasonWords) /\ IsNumber(t, i + 1, {2, 4})

\* f"{season} {year_full}"
TermLabel(t, i) == <<Title(WordLower(t[i])), YearFull(t[i + 1])>>

\* lines 595-611
RuleExcludeTerm(c) ==
    LET t == c.t
        hits == { i \in DOMAIN t : Is(t, i, {"exclude"}) /\ SeasonYearAt(t, i + 1) }
        term_label == TermLabel(t, First(hits) + 1)
        kept == SelectSeq(c.f.terms, LAMBDA x : x # term_label)
    IN IF hits = {} THEN c
       ELSE [c EXCEPT !.f.exclude_terms = <<term_label>>,
                      !.signals = Append(@, "exclude_term"),
                      !.f.terms = kept,
                      !.filtered_out = IF c.f.terms # <<>>
                                       THEN Extend(@, "terms", <<term_label>>) ELSE @,
                      !.excluded_terms_only = IF kept = <<>> THEN Append(@, term_label) ELSE @]

\* LARGEST_K_RE (line 58) / SMALLEST_K_RE (line 59) at word i: the position of
\* the number, or 0
RankAt(t, i, one, two) ==
    IF Is(t, i, one) /\ i + 1 <= Len(t) /\ LeadingDigits(t[i + 1]) # <<>> THEN i + 1
    ELSE IF /\ \E p \in two : Is(t, i, {p[1]}) /\ Is(t, i + 1, {p[2]})
            /\ i + 2 <= Len(t) /\ LeadingDigits(t[i + 2]) # <<>> THEN i + 2
    ELSE 0

\* max(k, 1)
AtLeastOne(k) == IF k > 1 THEN k ELSE 1

\* lines 613-630
RuleRanking(c) ==
    LET t == c.t
        top_k == { i \in DOMAIN t : RankAt(t, i, {"largest", "biggest"},
                        { <<"most", "students">>, <<"highest", "enrollment">> }) # 0 }
        low_k == { i \in DOMAIN t : RankAt(t, i, {"smallest", "fewest"},
                        { <<"least", "students">> }) # 0 }
        topN == LeadingDigits(t[RankAt(t, First(top_k), {"largest", "biggest"},
                        { <<"most", "students">>, <<"highest", "enrollment">> })])[1]
        lowN == LeadingDigits(t[RankAt(t, First(low_k), {"smallest", "fewest"},
                        { <<"least", "students">> })])[1]
    IN IF top_k # {}
       THEN [c EXCEPT !.rank_enrollment = <<[limit |-> AtLeastOne(topN), order |-> "DESC"]>>]
       ELSE IF low_k # {}
       THEN [c EXCEPT !.rank_enrollment = <<[limit |-> AtLeastOne(lowN), order |-> "ASC"]>>]
       ELSE c

\* lines 632-638
RuleSingleToken(c) ==
    IF Len(c.t) = 1 /\ c.f.instructors # <<>> /\ c.f.subjects # <<>> /\ c.f.course_numbers = <<>>
    THEN [c EXCEPT !.f.subjects = <<>>,
                   !.signals = SelectSeq(@, LAMBDA x : x # "subject_only")]
    ELSE c

\* YEAR_RE (line 26): a word that is 20 and two more digits
IsYearWord(w) == IsDigits(w) /\ CharLen(w) = 4 /\ IntOf(w) \in 2000..2099

\* lines 640-667: an explicit term, else a relative term, else a year, else a season
RuleTerm(c) ==
    LET t == c.t
        term == { i \in DOMAIN t : SeasonYearAt(t, i) }
        rel_term == { i \in DOMAIN t : Is(t, i, {"last", "this"}) /\ Is(t, i + 1, SeasonWords) }
        year_match == { i \in DOMAIN t : IsYearWord(t[i]) }
        season_only == { i \in DOMAIN t : Is(t, i, SeasonWords) }
    IN IF term # {}
       THEN _add_signal([c EXCEPT !.f.terms = <<TermLabel(t, First(term))>>], "term")
       ELSE IF rel_term # {}
       THEN _add_signal([c EXCEPT !.relative_term =
                             <<[season |-> Title(WordLower(t[First(rel_term) + 1])),
                                when |-> WordLower(t[First(rel_term)])]>>],
                        "relative_term")
       ELSE IF year_match # {}
       THEN _add_signal([c EXCEPT !.f.terms =
                             << <<"Spring", t[First(year_match)]>>,
                                <<"Summer", t[First(year_match)]>>,
                                <<"Fall", t[First(year_match)]>> >>],
                        "year_terms")
       ELSE IF season_only # {}
       THEN _add_signal([c EXCEPT !.f.terms = << <<Title(WordLower(t[First(season_only)]))>> >>],
                        "term_season_only")
       ELSE c

\* lines 669-698: a season taken for a subject is dropped and the subject-only
\* fallback runs again
RuleSeasonMisparse(c) ==
    LET season_subject == c.f.subjects[1] \in {"FALL", "SPRING", "SUMMER"}
        term_year == IF Len(c.f.terms[1]) >= 2 THEN c.f.terms[1][2] ELSE None
        season_year_misparse ==
            season_subject /\ (\/ c.f.course_numbers = <<term_year>>
                               \/ c.f.course_numbers = <<>>)
        subject_candidate == SubjectCandidate(c)
    IN IF c.f.terms # <<>> /\ c.f.subjects # <<>> /\ season_year_misparse
       THEN [c EXCEPT !.f.subjects = subject_candidate,
                      !.f.course_numbers = <<>>,
                      !.signals = SelectSeq(@ \o <<"term_overrode_subject_course">>
                                              \o (IF subject_candidate # <<>>
                                                  THEN <<"subject_only">> ELSE <<>>),
                                            LAMBDA x : x # "subject_course")]
       ELSE c

\* lines 700-707
RuleCourseLevel(c) ==
    IF \E i \in DOMAIN c.t : Is(c.t, i, {"undergrad", "undergraduate", "ug"})
    THEN _add_signal([c EXCEPT !.f.course_levels = <<"UG">>], "course_level")
    ELSE IF \E i \in DOMAIN c.t : Is(c.t, i, {"grad", "graduate"})
    THEN _add_signal([c EXCEPT !.f.course_levels = <<"GR">>], "course_level")
    ELSE c

\* \bTOP\s+(\d+)\b (line 711) at word i
TopAt(t, i) ==
    /\ Is(t, i, {"top"}) /\ i + 1 <= Len(t)
    /\ Lexicon(t[i + 1]).kind \in {"digits", "decimal"}

\* lines 709-717
RuleLimit(c) ==
    LET top_match == { i \in DOMAIN c.t : TopAt(c.t, i) }
    IN IF top_match # {}
       THEN _add_signal([c EXCEPT !.limit_val = LeadingDigits(c.t[First(top_match) + 1])], "limit")
       ELSE IF TextHas(c.t, "top")
       THEN _add_signal([c EXCEPT !.limit_val = <<5>>], "limit_default")
       ELSE c

\* lines 719-738 (of the keywords the code looks for in the upper-cased text,
\* the words of the model contain EASIEST, LARGEST and SMALLEST)
RuleSort(c) ==
    IF TextHas(c.t, "easiest")
    THEN _add_signal([c EXCEPT !.sort_by = "gpa", !.sort_order = "DESC"], "sort_gpa_desc")
    ELSE IF TextHas(c.t, "largest")
    THEN _add_signal([c EXCEPT !.sort_by = "enrollment", !.sort_order = "DESC"],
                     "sort_enrollment_desc")
    ELSE IF TextHas(c.t, "smallest")
    THEN _add_signal([c EXCEPT !.sort_by = "enrollment", !.sort_order = "ASC"],
                     "sort_enrollment_asc")
    ELSE c

\* lines 741-755
has_extra_filters(filters) ==
    \/ filters.course_number_min # <<>> \/ filters.course_number_max # <<>>
    \/ filters.gpa_min # <<>> \/ filters.gpa_max # <<>>
    \/ filters.instructors # <<>> \/ filters.terms # <<>> \/ filters.course_levels # <<>>
    \/ filters.credits_min # <<>> \/ filters.credits_max # <<>>
    \/ filters.enrollment_min # <<>> \/ filters.enrollment_max # <<>>

\* lines 756-771
has_any_filters(filters) ==
    \/ filters.subjects # <<>> \/ filters.course_numbers # <<>>
    \/ filters.instructors # <<>> \/ filters.terms # <<>>
    \/ filters.course_number_min # <<>> \/ filters.course_number_max # <<>>
    \/ filters.gpa_min # <<>> \/ filters.gpa_max # <<>>
    \/ filters.credits_min # <<>> \/ filters.credits_max # <<>>
    \/ filters.enrollment_min # <<>> \/ filters.enrollment_max # <<>>

\* a number that is truthy: "if x" / "x or y" on an Optional[int]
Truthy(n) == n # <<>> /\ n[1] # 0

\* lines 773-778
DecideIntent(has_single_course_match, filters) ==
    IF /\ has_single_course_match /\ ~has_extra_filters(filters)
       /\ ~(Truthy(filters.course_number_min) \/ Truthy(filters.course_number_max))
    THEN "course_lookup"
    ELSE IF has_any_filters(filters) THEN "section_filter"
    ELSE "browse_subjects"

\* lines 780-785, in tenths
Confidence(intent) ==
    CASE intent = "course_lookup" -> 10 [] intent = "section_filter" -> 8 [] OTHER -> 5

\* the plan with the ranking hint applied only where no sort or limit cue was found
BuildPlan_CuesOverRanking(c) ==
    LET intent == DecideIntent(c.has_single_course_match, c.f)
        ranked == c.rank_enrollment # <<>>
    IN [intent |-> intent, filters |-> c.f, confidence |-> Confidence(intent),
        sort_by |-> IF c.sort_by # None THEN c.sort_by
                    ELSE IF ranked THEN "enrollment" ELSE None,
        sort_order |-> IF c.sort_order # None THEN c.sort_order
                       ELSE IF ranked THEN c.rank_enrollment[1].order ELSE None,
        limit |-> IF Truthy(c.limit_val) THEN c.limit_val
                  ELSE IF ranked THEN <<c.rank_enrollment[1].limit>> ELSE <<>>,
        debug |-> [tokens |-> c.t, signals |-> c.signals, filtered_out |-> c.filtered_out,
                   excluded_terms_only |-> c.excluded_terms_only,
                   relative_term |-> c.relative_term, rank_enrollment |-> c.rank_enrollment]]

\* lines 787-807: the plan, with the sort and limit cues and the ranking on top
BuildPlan(c) ==
    LET intent == DecideIntent(c.has_single_course_match, c.f)
        ranked == c.rank_enrollment # <<>>
    IN [intent |-> intent, filters |-> c.f, confidence |-> Confidence(intent),
        sort_by |-> IF ranked THEN "enrollment" ELSE c.sort_by,
        sort_order |-> IF ranked THEN c.rank_enrollment[1].order ELSE c.sort_order,
        limit |-> IF ranked THEN <<c.rank_enrollment[1].limit>>
                  ELSE IF Truthy(c.limit_val) THEN c.limit_val ELSE <<>>,
        debug |-> [tokens |-> c.t, signals |-> c.signals, filtered_out |-> c.filtered_out,
                   excluded_terms_only |-> c.excluded_terms_only,
                   relative_term |-> c.relative_term, rank_enrollment |-> c.rank_enrollment]]

\* the k-th rule of parse_query_to_plan, in the order of the source
ApplyRule(k, c) ==
    CASE k = 1 -> RuleAlias(c)
      [] k = 2 -> RuleSubjectCourse(c)
      [] k = 3 -> RulePlaceholder(c)
      [] k = 4 -> RuleSubjectOnly(c)
      [] k = 5 -> RuleTitle(c)
      [] k = 6 -> RuleCourseRange(c)
      [] k = 7 -> RuleRangeDropsNumbers(c)
      [] k = 8 -> RuleGpaRaw(c)
      [] k = 9 -> RuleGpaAbove(c)
      [] k = 10 -> RuleGpaBelow(c)
      [] k = 11 -> RuleCredits(c)
      [] k = 12 -> RuleEnrollmentBetween(c)
      [] k = 13 -> RuleEnrollmentHigh(c)
      [] k = 14 -> RuleEnrollmentLow(c)
      [] k = 15 -> RuleEnrollmentPlus(c)
      [] k = 16 -> RuleInstructors(c)
      [] k = 17 -> RuleTitleVsInstructor(c)
      [] k = 18 -> RuleGradeCount(c)
      [] k = 19 -> RuleGradePercent(c)
      [] k = 20 -> RuleNoGrades(c)
      [] k = 21 -> RuleGradeCompare(c)
      [] k = 22 -> RuleExcludeInstructors(c)
      [] k = 23 -> RuleExcludeTerm(c)
      [] k = 24 -> RuleRanking(c)
      [] k = 25 -> RuleSingleToken(c)
      [] k = 26 -> RuleTerm(c)
      [] k = 27 -> RuleSeasonMisparse(c)
      [] k = 28 -> RuleCourseLevel(c)
      [] k = 29 -> RuleLimit(c)
      [] k = 30 -> RuleSort(c)

\* the rules from the k-th on, each working on the result of the one before
RECURSIVE RunRules(_, _)
RunRules(S, k) ==
    IF k > 30 THEN S ELSE RunRules({ ApplyRule(k, c) : c \in S }, k + 1)

\* parse_query_to_plan (lines 214-807) after the tokenizer and the alias table
parse_query_to_plan(t, tg, cache) ==
    CHOOSE plan \in { BuildPlan(c) : c \in RunRules({ParseStart(t, tg, cache)}, 1) } : TRUE

\* The texts handed to the parser: a subject part, criteria and a term part.
QHeads ==
    { <<>>, <<"CS", "2104">>, <<"CS">>, <<"CS", "2104", "MATH", "5114">>, <<"CS", "2xxx">>,
      <<"computer", "science">> }

QCriteria ==
    { <<>>, <<"no", "Fs">>, <<"50", "%", "A">>, <<"80", "%", "B", "or", "above">>,
      <<"more", "A", "than", "B">>, <<"5", "students", "got", "an", "A">>,
      <<"GPA", "above", "3.5">>, <<"GPA", "3.5">>, <<"with", "Cao">>, <<"without", "Cao">>,
      <<"undergrad">>, <<"\"", "algebra", "\"">>, <<"1000", "level">>,
      <<"1000", "to", "2000">>, <<"between", "100", "and", "200", "students">>,
      <<"3", "credits">>, <<"easiest">> }

QMoreCriteria ==
    { <<>>, <<"students", "over", "300">>, <<"30", "+", "students">>, <<"largest", "5">>,
      <<"smallest", "2">>, <<"top", "3">>, <<"smallest", "2", "largest", "5">>,
      <<"top", "3", "smallest", "0">> }

QTerms ==
    { <<>>, <<"Fall", "2023">>, <<"exclude", "Fall", "2023">>, <<"last", "spring">>,
      <<"2023">>, <<"spring">> }

Queries ==
    { h \o a \o z : h \in QHeads, a \in QCriteria \cup QMoreCriteria, z \in QTerms }
        \cup { h \o a \o b : h \in {<<>>, <<"CS", "2104">>}, a \in QCriteria, b \in QMoreCriteria }

\* the words on which the tagger's verdict can change what a rule does
OpenWords == {"CS", "computer", "Cao", "undergrad", "algebra"}

\* the words the entity recogniser may label PERSON
PersonWords == {"Cao"}

Taggings(t) ==
    { [desc |-> d, persons |-> p] :
        d \in SUBSET (OpenWords \cap Range(t)), p \in SUBSET (PersonWords \cap Range(t)) }

\* the alias cache as a request finds it: not loaded yet, loaded, or marked
\* loaded after a failed load (empty)
AliasStates ==
    { [loaded |-> FALSE, cache |-> {}], [loaded |-> TRUE, cache |-> AliasRows],
      [loaded |-> TRUE, cache |-> {}] }

PqStart(t, tg, alias) ==
    [pc |-> "nlp", text |-> t, tg |-> tg, _SUBJECT_ALIAS_LOADED |-> alias.loaded,
     _SUBJECT_ALIAS_CACHE |-> alias.cache, result |-> NoOutcome]

InitParse ==
    /\ pq \in UNION { { PqStart(t, tg, a) : tg \in Taggings(t), a \in AliasStates } :
                          t \in Queries }
    /\ pct = Idle /\ ai = Idle /\ ep = Idle /\ ex = Idle /\ al = Idle /\ ld = Idle /\ ag = Idle

\* line 226: doc = nlp(text)
P_Tokenize ==
    /\ pq.pc = "nlp"
    /\ pq' = IF NlpAccepts(pq.text) THEN [pq EXCEPT !.pc = "aliases"]
             ELSE [pq EXCEPT !.pc = "done", !.result = Raised("ValueError")]
    /\ UNCHANGED <<pct, ai, ep, ex, al, ld, ag>>

\* line 237 -> _load_subject_aliases (lines 150-181): once the flag is set the
\* cache is returned as it is; otherwise one attempt, which fills the cache or
\* fails and leaves it empty, and the flag is set either way
P_LoadAliases ==
    /\ pq.pc = "aliases"
    /\ IF pq._SUBJECT_ALIAS_LOADED
       THEN pq' = [pq EXCEPT !.pc = "rules"]
       ELSE \E loaded \in {{}, AliasRows} :
                pq' = [pq EXCEPT !.pc = "rules", !._SUBJECT_ALIAS_LOADED = TRUE,
                                 !._SUBJECT_ALIAS_CACHE = loaded]
    /\ UNCHANGED <<pct, ai, ep, ex, al, ld, ag>>

\* lines 228-807
P_Rules ==
    /\ pq.pc = "rules"
    /\ pq' = [pq EXCEPT !.pc = "done",
                        !.result = [kind |-> "return",
                                    plan |-> parse_query_to_plan(pq.text, pq.tg,
                                                                 pq._SUBJECT_ALIAS_CACHE)]]
    /\ UNCHANGED <<pct, ai, ep, ex, al, ld, ag>>

NextParse ==
    \/ P_Tokenize
    \/ P_LoadAliases
    \/ P_Rules

SpecParse == InitParse /\ [][NextParse]_vars

PqReturned == pq.pc = "done" /\ pq.result.kind = "return"

OtherFilterFields ==
    {"instructors", "terms", "course_title_contains", "exclude_instructors", "exclude_terms",
     "course_levels", "grade_min", "grade_min_percent", "grade_max", "b_or_above_percent_min",
     "grade_compare", "course_number_min", "course_number_max", "gpa_min", "gpa_max",
     "credits_min", "credits_max", "enrollment_min", "enrollment_max"}

\* C8: parse_query_to_plan returns course_lookup (confidence 1.0) only when the
\* subject+course-number pattern matched exactly once and every Filters field
\* other than subjects and course_numbers is empty or absent.
C8_CourseLookupOnlyPair ==
    (PqReturned /\ pq.result.plan.intent = "course_lookup") =>
        /\ pq.result.plan.confidence = 10
        /\ Cardinality({ i \in DOMAIN pq.text : SubjectCourseAt(pq.text, i)
                            /\ ~InSubjectStopwords(WordUpper(pq.text[i])) }) = 1
        /\ \A k \in OtherFilterFields : pq.result.plan.filters[k] = <<>>

\* C9: parse_query_to_plan returns browse_subjects (confidence 0.5) only when
\* every Filters field is empty or absent.
C9_BrowseOnlyWhenNoFilter ==
    (PqReturned /\ pq.result.plan.intent = "browse_subjects") =>
        /\ pq.result.plan.confidence = 5
        /\ pq.result.plan.filters = EmptyFilters

\* C22: in the plan parse_query_to_plan returns, no label of exclude_terms (put
\* there by an "exclude <Season> <year>" phrase) is also in filters.terms.
C22_ExcludedTermNotInTerms ==
    PqReturned =>
        \A x \in Range(pq.result.plan.filters.exclude_terms) :
            x \notin Range(pq.result.plan.filters.terms)

RangeSignals == {"course_placeholder", "course_between", "course_range", "level_range"}

\* C23: in every returned plan a non-empty course_numbers list comes with
\* course_number_min and course_number_max both absent, and whenever a range
\* rule fired (placeholder, between, X to Y, level) course_numbers is empty.
C23_RangeClearsCourseNumbers ==
    PqReturned =>
        LET f == pq.result.plan.filters
        IN /\ f.course_numbers # <<>> =>
                  f.course_number_min = <<>> /\ f.course_number_max = <<>>
           /\ (Range(pq.result.plan.debug.signals) \cap RangeSignals # {}) =>
                  /\ f.course_numbers = <<>>
                  /\ f.course_number_min # <<>> /\ f.course_number_max # <<>>

\* C23 witness: "CS 2104 ... 1000 to 2000": the pair matched, the range fired,
\* and the plan carries the range without the exact number.
C23_Witness ==
    /\ PqReturned
    /\ {"subject_course", "course_range"} \subseteq Range(pq.result.plan.debug.signals)
    /\ pq.result.plan.filters.course_numbers = <<>>
    /\ pq.result.plan.filters.course_number_min = <<1000>>
    /\ pq.result.plan.filters.course_number_max = <<2000>>

\* C24: when the text has an enrollment "between/from N and/to M" phrase the
\* returned plan has enrollment_min = min(N, M) and enrollment_max = max(N, M),
\* whatever other enrollment phrases the text contains.
C24_EnrollmentBetweenOrdered ==
    PqReturned =>
        LET t == pq.text
            f == pq.result.plan.filters
            between == { i \in DOMAIN t : EnrollmentBetweenAt(t, i) }
            n == IntOf(t[First(between) + 1])
            m == IntOf(t[First(between) + 3])
        IN between # {} =>
              /\ f.enrollment_min = <<IF n <= m THEN n ELSE m>>
              /\ f.enrollment_max = <<IF n <= m THEN m ELSE n>>
              /\ f.enrollment_min[1] <= f.enrollment_max[1]

\* the positions of a "largest/biggest/most students/highest enrollment N" cue
LargestCues(t) ==
    { i \in DOMAIN t : RankAt(t, i, {"largest", "biggest"},
                              { <<"most", "students">>, <<"highest", "enrollment">> }) # 0 }

\* the positions of a "smallest/fewest/least students N" cue
SmallestCues(t) ==
    { i \in DOMAIN t : RankAt(t, i, {"smallest", "fewest"}, { <<"least", "students">> }) # 0 }

\* the N of the first cue among the positions S
CueNumber(t, S) ==
    LET i == First(S)
        j == IF LeadingDigits(t[i + 1]) # <<>> THEN i + 1 ELSE i + 2
    IN LeadingDigits(t[j])[1]

\* C25: whenever a ranking cue with a number matched, the returned plan has
\* sort_by = enrollment, sort_order DESC for the largest family (which wins when
\* both families match) or ASC for the smallest family, and limit = max(N, 1),
\* whatever "top N" limit or other sort keyword the text also has.
C25_RankingOverridesSortAndLimit ==
    PqReturned =>
        LET t == pq.text
            p == pq.result.plan
            big == LargestCues(t)
            small == SmallestCues(t)
        IN /\ big # {} =>
                /\ p.sort_by = "enrollment" /\ p.sort_order = "DESC"
                /\ p.limit = <<IF CueNumber(t, big) >= 1 THEN CueNumber(t, big) ELSE 1>>
           /\ (big = {} /\ small # {}) =>
                /\ p.sort_by = "enrollment" /\ p.sort_order = "ASC"
                /\ p.limit = <<IF CueNumber(t, small) >= 1 THEN CueNumber(t, small) ELSE 1>>

\* C25 witness: "top 3 smallest 0": a limit cue of 3 and the smallest family
\* with N = 0 give enrollment, ASC and limit 1.
C25_Witness ==
    /\ PqReturned
    /\ "limit" \in Range(pq.result.plan.debug.signals)
    /\ SmallestCues(pq.text) # {} /\ CueNumber(pq.text, SmallestCues(pq.text)) = 0
    /\ pq.result.plan.sort_by = "enrollment"
    /\ pq.result.plan.sort_order = "ASC"
    /\ pq.result.plan.limit = <<1>>

(***************************************************************************)
(* backend/app/nlp_parser.py : _load_subject_aliases under concurrent      *)
(* callers.  parse_query_to_plan is a plain function with module globals   *)
(* and no lock; callers run in the server's worker threads, and a thread   *)
(* may be descheduled between any two statements (certainly while it waits *)
(* for the database).  load_attempts, failed and late_open are history     *)
(* variables: the number of callers that entered the try block of line     *)
(* 156, whether an attempt has ended in the except branch, and whether a   *)
(* call that began after that opened a connection.                         *)
(***************************************************************************)
NumCallers == 2
MaxCalls == 2
Callers == 1..NumCallers

CallerIdle == [pc |-> "idle", conn |-> "none", cur |-> "none", after_failure |-> FALSE]

\* lines 136-137: the module globals as the import leaves them
InitAlias ==
    /\ al = [_SUBJECT_ALIAS_LOADED |-> FALSE, _SUBJECT_ALIAS_CACHE |-> {},
             load_attempts |-> 0, failed |-> FALSE, late_open |-> FALSE, calls |-> 0,
             th |-> [c \in Callers |-> CallerIdle]]
    /\ pct = Idle /\ ai = Idle /\ ep = Idle /\ ex = Idle /\ pq = Idle /\ ld = Idle /\ ag = Idle

\* line 237: a worker thread calls _load_subject_aliases()
L_Call(c) ==
    /\ al.th[c].pc = "idle"
    /\ al.calls < MaxCalls
    /\ al' = [al EXCEPT !.calls = @ + 1,
                        !.th[c] = [CallerIdle EXCEPT !.pc = "check",
                                                     !.after_failure = al.failed]]
    /\ UNCHANGED <<pct, ai, ep, ex, pq, ld, ag>>

\* lines 152-155: if _SUBJECT_ALIAS_LOADED: return _SUBJECT_ALIAS_CACHE
L_CheckFlag(c) ==
    /\ al.th[c].pc = "check"
    /\ al' = IF al._SUBJECT_ALIAS_LOADED
             THEN [al EXCEPT !.th[c].pc = "return"]
             ELSE [al EXCEPT !.th[c].pc = "connect", !.load_attempts = @ + 1]
    /\ UNCHANGED <<pct, ai, ep, ex, pq, ld, ag>>

\* lines 156-158: try: conn = get_db_conn(); cur = conn.cursor()
L_Connect(c) ==
    /\ al.th[c].pc = "connect"
    /\ \/ al' = [al EXCEPT !.th[c].pc = "except"]
       \/ al' = [al EXCEPT !.th[c].pc = "select", !.th[c].conn = "open",
                           !.th[c].cur = "open",
                           !.late_open = @ \/ al.th[c].after_failure]
    /\ UNCHANGED <<pct, ai, ep, ex, pq, ld, ag>>

\* lines 159-166: the SELECT and the loop that fills the cache
L_Select(c) ==
    /\ al.th[c].pc = "select"
    /\ \/ al' = [al EXCEPT !.th[c].pc = "except"]
       \/ al' = [al EXCEPT !.th[c].pc = "loaded",
                           !._SUBJECT_ALIAS_CACHE = @ \cup AliasRows]
    /\ UNCHANGED <<pct, ai, ep, ex, pq, ld, ag>>

\* line 167: _SUBJECT_ALIAS_LOADED = True
L_SetLoaded(c) ==
    /\ al.th[c].pc = "loaded"
    /\ al' = [al EXCEPT !.th[c].pc = "finally", !._SUBJECT_ALIAS_LOADED = TRUE]
    /\ UNCHANGED <<pct, ai, ep, ex, pq, ld, ag>>

\* lines 168-169: except Exception: _SUBJECT_ALIAS_LOADED = True
L_Except(c) ==
    /\ al.th[c].pc = "except"
    /\ al' = [al EXCEPT !.th[c].pc = "finally", !._SUBJECT_ALIAS_LOADED = TRUE,
                        !.failed = TRUE]
    /\ UNCHANGED <<pct, ai, ep, ex, pq, ld, ag>>

\* lines 170-180: finally: cur.close(); conn.close()
L_Finally(c) ==
    /\ al.th[c].pc = "finally"
    /\ al' = [al EXCEPT !.th[c].pc = "return",
                        !.th[c].cur = IF @ = "open" THEN "closed" ELSE @,
                        !.th[c].conn = IF @ = "open" THEN "closed" ELSE @]
    /\ UNCHANGED <<pct, ai, ep, ex, pq, ld, ag>>

\* lines 153 and 181: return _SUBJECT_ALIAS_CACHE
L_Return(c) ==
    /\ al.th[c].pc = "return"
    /\ al' = [al EXCEPT !.th[c].pc = "idle"]
    /\ UNCHANGED <<pct, ai, ep, ex, pq, ld, ag>>

NextAlias ==
    \E c \in Callers :
        \/ L_Call(c)
        \/ L_CheckFlag(c)
        \/ L_Connect(c)
        \/ L_Select(c)
        \/ L_SetLoaded(c)
        \/ L_Except(c)
        \/ L_Finally(c)
        \/ L_Return(c)

SpecAlias == InitAlias /\ [][NextAlias]_vars

\* C12: the subject-alias table is read at most once per process: over any
\* interleaving of concurrent parse_query_to_plan calls there is at most one
\* load attempt, successful or failed, and no call that begins after a failed
\* attempt opens a database connection.
C12_AtMostOneLoadAttempt ==
    /\ al.load_attempts <= 1
    /\ ~al.late_open

(***************************************************************************)
(* db/tools/db_loader.py : convert_to_sql, write_sql_to_file and the       *)
(* script's main block.                                                    *)
(*                                                                         *)
(* A CSV row is a record of its columns under the names convert_to_sql     *)
(* gives them; ncols is len(cls).  A numeric column is <<>> when its text  *)
(* is empty and <<n>> when it is the text of n (GPAs in hundredths,        *)
(* percentages in whole percents); credits that are None, and NULL in a    *)
(* tuple, are <<>>.  A year half is the sequence of its digits, and an     *)
(* academic year is the sequence of the parts that split("-") yields.  A   *)
(* term label is the pair of the season word and the calendar year that    *)
(* the f-string joins with a space.  A value tuple of the SQL text is the  *)
(* record of its literals, and a row of the store is such a record.        *)
(***************************************************************************)
MaxRows == 3

RECURSIVE DigitsInt(_)
\* int(s) for a string of decimal digits
DigitsInt(d) == IF d = <<>> THEN 0 ELSE 10 * DigitsInt(SubSeq(d, 1, Len(d) - 1)) + d[Len(d)]

RECURSIVE IntDigits(_)
\* f"{n}" for an int n >= 0
IntDigits(n) == IF n < 10 THEN <<n>> ELSE Append(IntDigits(n \div 10), n % 10)

\* str.capitalize() and str.lower() of the season texts, and "spring" in tl,
\* "fall" in tl
SeasonTexts == {"Fall", "Spring", "fall", "Summer I"}

Capitalize(s) == IF s = "fall" THEN "Fall" ELSE s

Lower(s) ==
    CASE s = "Fall" -> "fall"
      [] s = "Spring" -> "spring"
      [] s = "Summer I" -> "summer i"
      [] OTHER -> s

\* sub in tl, for "spring" and "fall" in the lower-cased season texts above:
\* none of them holds one of the two words as a proper part
Contains(tl, sub) == (tl = sub)

\* re.match(r"^[0-4]", course_number)
LeadingCharIn0To4(course_number) ==
    CASE course_number = "2104" -> TRUE
      [] course_number = "5000" -> FALSE
      [] OTHER -> FALSE

\* subject_map.SUBJECT_NAME_MAP.get(subject_code, subject_code)
SUBJECT_NAME_MAP_get(subject_code) ==
    IF subject_code = "CS" THEN "Computer Science" ELSE subject_code

\* lines 327-330: value.replace("'", "''")
sql_escape(value) == IF value = "O'Neil" THEN "O''Neil" ELSE value

\* the function without the expansion of lines 344-347
normalize_academic_year_NoExpansion(ay) ==
    IF Len(ay) # 2 THEN [error |-> "ValueError", parts |-> <<>>]
    ELSE [error |-> None, parts |-> <<ay[1], ay[2]>>]

\* lines 333-349: the ValueError of line 340, or the two halves of the
\* string that line 349 returns
normalize_academic_year(ay) ==
    IF Len(ay) # 2 THEN [error |-> "ValueError", parts |-> <<>>]
    ELSE [error |-> None,
          parts |-> << IF Len(ay[1]) = 2 THEN <<2, 0>> \o ay[1] ELSE ay[1],
                       IF Len(ay[2]) = 2 THEN <<2, 0>> \o ay[2] ELSE ay[2] >>]

Percents(a, a_minus) == [i \in 1..NumGrades |-> IF i = 1 THEN a ELSE IF i = 2 THEN a_minus ELSE <<>>]

CsvRow1 ==
    [ncols |-> 23, blank |-> FALSE, acad_year_raw |-> << <<2, 0, 2, 2>>, <<2, 3>> >>,
     term_label_raw |-> "Fall", subject_code |-> "CS", course_number |-> "2104",
     course_title |-> "Problem Solving", instructor_name |-> "Yong Cao", gpa |-> <<350>>,
     percentages |-> Percents(<<50>>, <<50>>), withdraws |-> <<1>>,
     graded_enrollment |-> <<10>>, crn |-> <<101>>, credits |-> <<3>>]

\* same course key as CsvRow1 with another title, another instructor and term
CsvRow2 ==
    [CsvRow1 EXCEPT !.acad_year_raw = << <<2, 0, 2, 2>>, <<2, 0, 2, 3>> >>,
                    !.term_label_raw = "Spring", !.course_title = "Intro",
                    !.instructor_name = "O'Neil", !.gpa = <<>>, !.crn = <<102>>,
                    !.percentages = Percents(<<33>>, <<>>), !.graded_enrollment = <<7>>]

\* same section reference number and term as CsvRow1, everything else differs
CsvRow3 ==
    [CsvRow1 EXCEPT !.acad_year_raw = << <<2, 2>>, <<2, 3>> >>, !.term_label_raw = "fall",
                    !.subject_code = "MATH", !.course_number = "5000",
                    !.course_title = "Algebra", !.gpa = <<400>>, !.credits = <<>>,
                    !.graded_enrollment = <<>>, !.withdraws = <<>>]

CsvRow4 ==
    [CsvRow3 EXCEPT !.acad_year_raw = << <<2, 0, 2, 3>>, <<2, 4>> >>, !.term_label_raw = "Spring",
                    !.instructor_name = "O'Neil", !.crn = <<103>>]

\* the fall term of the following academic year
CsvRow5 ==
    [CsvRow1 EXCEPT !.acad_year_raw = << <<2, 0, 2, 3>>, <<2, 4>> >>, !.crn = <<104>>]

\* the fatal rows: 22 columns, a summer term, an academic year without "-"
CsvRowShort == [CsvRow1 EXCEPT !.ncols = 22]
CsvRowSummer == [CsvRow2 EXCEPT !.term_label_raw = "Summer I"]
CsvRowBadYear == [CsvRow4 EXCEPT !.acad_year_raw = << <<2, 0, 2, 3>> >>]

\* a row whose columns are all empty
CsvRowBlank == [CsvRow1 EXCEPT !.blank = TRUE]

CsvRows ==
    {CsvRow1, CsvRow2, CsvRow3, CsvRow4, CsvRow5, CsvRowShort, CsvRowSummer, CsvRowBadYear,
     CsvRowBlank}

CsvFiles == UNION { [1..n -> CsvRows] : n \in 0..MaxRows }

\* lines 16-28: the rows after the header, without the rows that are all empty
load_classes_from_csv(rows) == SelectSeq(rows, LAMBDA r : ~r.blank)

\* lines 93-109: tables, the deduplication sets and maps, the id counters; the
\* other fields are the loop's locals
ConvertStart ==
    [tables |-> [subject |-> <<>>, term |-> <<>>, course |-> <<>>, instructor |-> <<>>,
                 section |-> <<>>, grade_distribution |-> <<>>],
     seen_subjects |-> {}, seen_terms |-> {}, course_ids |-> EmptyDict,
     instructor_ids |-> EmptyDict, seen_sections |-> {}, seen_grade_dist |-> {},
     next_course_id |-> 1, next_instructor_id |-> 1, error |-> None,
     gpa |-> 0, withdraws |-> 0, graded_enrollment |-> 0, credits |-> <<>>, level |-> None,
     acad_year |-> <<>>, term_id |-> 0, term_label |-> <<>>, instructor_id |-> 0,
     course_id |-> 0, section_id |-> 0]

\* lines 113-149: the column count, then gpa, withdraws, graded_enrollment,
\* credits and level
StepColumns(c, cls) ==
    IF cls.ncols < 23 THEN [c EXCEPT !.error = "ValueError: Expected 23 columns"]
    ELSE [c EXCEPT !.gpa = IF cls.gpa # <<>> THEN cls.gpa[1] ELSE 0,
                   !.withdraws = IF cls.withdraws # <<>> THEN cls.withdraws[1] ELSE 0,
                   !.graded_enrollment = IF cls.graded_enrollment # <<>>
                                         THEN cls.graded_enrollment[1] ELSE 0,
                   !.credits = IF cls.credits # <<>> THEN <<cls.credits[1]>> ELSE <<>>,
                   !.level = IF LeadingCharIn0To4(cls.course_number) THEN "UG" ELSE "GR"]

\* lines 152-157
StepSubject(c, cls) ==
    IF cls.subject_code \in c.seen_subjects THEN c
    ELSE [c EXCEPT !.seen_subjects = @ \cup {cls.subject_code},
                   !.tables.subject =
                       Append(@, [subject_code |-> sql_escape(cls.subject_code),
                                  name |-> sql_escape(SUBJECT_NAME_MAP_get(cls.subject_code))])]

\* the derivation with the start year taken for a spring term as well
StepTermId_StartYearForSpring(c, cls) ==
    IF normalize_academic_year(cls.acad_year_raw).error # None
    THEN [c EXCEPT !.error = "ValueError: Invalid academic year format"]
    ELSE IF Contains(Lower(Capitalize(cls.term_label_raw)), "spring")
    THEN [c EXCEPT !.acad_year = normalize_academic_year(cls.acad_year_raw).parts,
                   !.term_id = DigitsInt(IntDigits(DigitsInt(
                                   normalize_academic_year(cls.acad_year_raw).parts[1])) \o <<0, 1>>),
                   !.term_label = <<Capitalize(cls.term_label_raw),
                                    DigitsInt(normalize_academic_year(cls.acad_year_raw).parts[1])>>]
    ELSE IF Contains(Lower(Capitalize(cls.term_label_raw)), "fall")
    THEN [c EXCEPT !.acad_year = normalize_academic_year(cls.acad_year_raw).parts,
                   !.term_id = DigitsInt(IntDigits(DigitsInt(
                                   normalize_academic_year(cls.acad_year_raw).parts[1])) \o <<0, 2>>),
                   !.term_label = <<Capitalize(cls.term_label_raw),
                                    DigitsInt(normalize_academic_year(cls.acad_year_raw).parts[1])>>]
    ELSE [c EXCEPT !.error = "ValueError: Unknown term label"]

\* lines 160-177: acad_year, start_year, end_year, cal_year, half, term_id, term_label
StepTermId(c, cls) ==
    IF normalize_academic_year(cls.acad_year_raw).error # None
    THEN [c EXCEPT !.error = "ValueError: Invalid academic year format"]
    ELSE IF Contains(Lower(Capitalize(cls.term_label_raw)), "spring")
    THEN [c EXCEPT !.acad_year = normalize_academic_year(cls.acad_year_raw).parts,
                   !.term_id = DigitsInt(IntDigits(DigitsInt(
                                   normalize_academic_year(cls.acad_year_raw).parts[2])) \o <<0, 1>>),
                   !.term_label = <<Capitalize(cls.term_label_raw),
                                    DigitsInt(normalize_academic_year(cls.acad_year_raw).parts[2])>>]
    ELSE IF Contains(Lower(Capitalize(cls.term_label_raw)), "fall")
    THEN [c EXCEPT !.acad_year = normalize_academic_year(cls.acad_year_raw).parts,
                   !.term_id = DigitsInt(IntDigits(DigitsInt(
                                   normalize_academic_year(cls.acad_year_raw).parts[1])) \o <<0, 2>>),
                   !.term_label = <<Capitalize(cls.term_label_raw),
                                    DigitsInt(normalize_academic_year(cls.acad_year_raw).parts[1])>>]
    ELSE [c EXCEPT !.error = "ValueError: Unknown term label"]

\* lines 179-183
StepTerm(c, cls) ==
    IF c.term_id \in c.seen_terms THEN c
    ELSE [c EXCEPT !.seen_terms = @ \cup {c.term_id},
                   !.tables.term = Append(@, [term_id |-> c.term_id,
                                              label |-> c.term_label,
                                              academic_year |-> c.acad_year])]

\* the step without the lookup of line 186: a new id for every row
StepInstructor_NewIdEachRow(c, cls) ==
    [c EXCEPT !.instructor_id = c.next_instructor_id,
              !.instructor_ids = Put(@, cls.instructor_name, c.next_instructor_id),
              !.next_instructor_id = @ + 1,
              !.tables.instructor =
                  Append(@, [instructor_id |-> c.next_instructor_id,
                             name_display |-> sql_escape(cls.instructor_name)])]

\* lines 186-195
StepInstructor(c, cls) ==
    IF cls.instructor_name \in DOMAIN c.instructor_ids
    THEN [c EXCEPT !.instructor_id = c.instructor_ids[cls.instructor_name]]
    ELSE [c EXCEPT !.instructor_id = c.next_instructor_id,
                   !.instructor_ids = Put(@, cls.instructor_name, c.next_instructor_id),
                   !.next_instructor_id = @ + 1,
                   !.tables.instructor =
                       Append(@, [instructor_id |-> c.next_instructor_id,
                                  name_display |-> sql_escape(cls.instructor_name)])]

\* lines 198-210
StepCourse(c, cls) ==
    IF <<cls.subject_code, cls.course_number>> \in DOMAIN c.course_ids
    THEN [c EXCEPT !.course_id = c.course_ids[<<cls.subject_code, cls.course_number>>]]
    ELSE [c EXCEPT !.course_id = c.next_course_id,
                   !.course_ids = Put(@, <<cls.subject_code, cls.course_number>>,
                                      c.next_course_id),
                   !.next_course_id = @ + 1,
                   !.tables.course =
                       Append(@, [course_id |-> c.next_course_id,
                                  subject_code |-> sql_escape(cls.subject_code),
                                  course_number |-> sql_escape(cls.course_number),
                                  title |-> sql_escape(cls.course_title),
                                  credits |-> c.credits,
                                  level |-> c.level])]

\* lines 213-219: section_id = int(crn)
StepSection(c, cls) ==
    IF cls.crn[1] \in c.seen_sections THEN [c EXCEPT !.section_id = cls.crn[1]]
    ELSE [c EXCEPT !.section_id = cls.crn[1],
                   !.seen_sections = @ \cup {cls.crn[1]},
                   !.tables.section =
                       Append(@, [section_id |-> cls.crn[1], course_id |-> c.course_id,
                                  term_id |-> c.term_id, instructor_id |-> c.instructor_id,
                                  credits |-> c.credits,
                                  graded_enrollment |-> c.graded_enrollment])]

\* lines 127-141 and 225-238: pf(idx) for the twelve percentage columns
PercentFloats(cls) ==
    [i \in 1..NumGrades |-> IF cls.percentages[i] # <<>> THEN cls.percentages[i][1] ELSE 0]

\* the step with the distributions deduplicated by course instead of section
StepGradeDist_PerCourse(c, cls) ==
    IF c.course_id \in c.seen_grade_dist THEN c
    ELSE [c EXCEPT !.seen_grade_dist = @ \cup {c.course_id},
                   !.tables.grade_distribution =
                       Append(@, [section_id |-> c.section_id, gpa |-> c.gpa,
                                  counts |-> percentages_to_counts(PercentFloats(cls),
                                                                   c.graded_enrollment),
                                  withdraws |-> c.withdraws,
                                  graded_enrollment |-> c.graded_enrollment])]

\* lines 222-259
StepGradeDist(c, cls) ==
    IF c.section_id \in c.seen_grade_dist THEN c
    ELSE [c EXCEPT !.seen_grade_dist = @ \cup {c.section_id},
                   !.tables.grade_distribution =
                       Append(@, [section_id |-> c.section_id, gpa |-> c.gpa,
                                  counts |-> percentages_to_counts(PercentFloats(cls),
                                                                   c.graded_enrollment),
                                  withdraws |-> c.withdraws,
                                  graded_enrollment |-> c.graded_enrollment])]

\* lines 111-259: the statements of one iteration of the loop, in order; an
\* exception leaves the loop
RowStep(k, c, cls) ==
    IF c.error # None THEN c
    ELSE CASE k = 1 -> StepColumns(c, cls)
           [] k = 2 -> StepSubject(c, cls)
           [] k = 3 -> StepTermId(c, cls)
           [] k = 4 -> StepTerm(c, cls)
           [] k = 5 -> StepInstructor(c, cls)
           [] k = 6 -> StepCourse(c, cls)
           [] k = 7 -> StepSection(c, cls)
           [] k = 8 -> StepGradeDist(c, cls)

RECURSIVE RunRowSteps(_, _, _)
RunRowSteps(S, k, cls) ==
    IF k > 8 THEN S ELSE RunRowSteps({ RowStep(k, c, cls) : c \in S }, k + 1, cls)

\* lines 111-259: one iteration of the loop
ConvertRow(c, cls) == CHOOSE x \in RunRowSteps({c}, 1, cls) : TRUE

\* lines 93-100: the tables in the order the dict holds them
TableOrder == <<"subject", "term", "course", "instructor", "section", "grade_distribution">>

\* lines 264-324: one INSERT ... VALUES ... ON CONFLICT DO NOTHING; per table
\* that has entries
write_sql_to_file(sql_content) ==
    [exists |-> TRUE, header |-> "-- Auto-generated SQL insert statements",
     statements |->
        SelectSeq([k \in 1..Len(TableOrder) |->
                      [table |-> TableOrder[k], entries |-> sql_content[TableOrder[k]],
                       on_conflict |-> "DO NOTHING"]],
                  LAMBDA st : st.entries # <<>>)]

\* the primary key of each table of the store
PrimaryKey(table) ==
    CASE table = "subject" -> "subject_code"
      [] table = "term" -> "term_id"
      [] table = "course" -> "course_id"
      [] table = "instructor" -> "instructor_id"
      [] table = "section" -> "section_id"
      [] table = "grade_distribution" -> "section_id"

HasKey(rows, key, value) == \E j \in DOMAIN rows : rows[j][key] = value

\* the references of the store: course -> subject, section -> course, term and
\* instructor, grade_distribution -> section
ReferencesHold(store, table, e) ==
    CASE table = "course" -> HasKey(store.subject, "subject_code", e.subject_code)
      [] table = "section" -> /\ HasKey(store.course, "course_id", e.course_id)
                              /\ HasKey(store.term, "term_id", e.term_id)
                              /\ HasKey(store.instructor, "instructor_id", e.instructor_id)
      [] table = "grade_distribution" -> HasKey(store.section, "section_id", e.section_id)
      [] OTHER -> TRUE

\* INSERT without a conflict clause: every tuple is added
InsertPlain(rows, entries, key) == rows \o entries

RECURSIVE InsertOnConflictDoNothing(_, _, _)
\* line 324: ON CONFLICT DO NOTHING: a tuple whose key is present is skipped
InsertOnConflictDoNothing(rows, entries, key) ==
    IF entries = <<>> THEN rows
    ELSE InsertOnConflictDoNothing(
             IF HasKey(rows, key, Head(entries)[key]) THEN rows ELSE Append(rows, Head(entries)),
             Tail(entries), key)

\* one statement of the file run against the store; a tuple that is inserted
\* and breaks a reference fails the statement
ApplyStatement(store, st) ==
    IF \E j \in DOMAIN st.entries :
          /\ ~HasKey(store[st.table], PrimaryKey(st.table), st.entries[j][PrimaryKey(st.table)])
          /\ ~ReferencesHold(store, st.table, st.entries[j])
    THEN [store EXCEPT !.failed = TRUE]
    ELSE [store EXCEPT ![st.table] =
                           InsertOnConflictDoNothing(@, st.entries, PrimaryKey(st.table))]

RECURSIVE ApplySql(_, _)
\* the statements of the file, in order
ApplySql(store, statements) ==
    IF statements = <<>> THEN store
    ELSE ApplySql(ApplyStatement(store, Head(statements)), Tail(statements))

EmptyStore ==
    [subject |-> <<>>, term |-> <<>>, course |-> <<>>, instructor |-> <<>>,
     section |-> <<>>, grade_distribution |-> <<>>, failed |-> FALSE]

\* a store seeded from another file: its ids 1 and 101 are taken
SeededStore ==
    [subject |-> << [subject_code |-> "CS", name |-> "Computer Science"] >>,
     term |-> << [term_id |-> 202202, label |-> <<"Fall", 2022>>,
                  academic_year |-> << <<2, 0, 2, 2>>, <<2, 0, 2, 3>> >>] >>,
     course |-> << [course_id |-> 1, subject_code |-> "CS", course_number |-> "1114",
                    title |-> "Intro", credits |-> <<3>>, level |-> "UG"] >>,
     instructor |-> << [instructor_id |-> 1, name_display |-> "Dwight Barnette"] >>,
     section |-> << [section_id |-> 101, course_id |-> 1, term_id |-> 202202,
                     instructor_id |-> 1, credits |-> <<3>>, graded_enrollment |-> 20] >>,
     grade_distribution |-> << [section_id |-> 101, gpa |-> 300,
                                counts |-> [i \in 1..NumGrades |-> IF i = 1 THEN 20 ELSE 0],
                                withdraws |-> 0, graded_enrollment |-> 20] >>,
     failed |-> FALSE]

Stores == {EmptyStore, SeededStore}

\* the output file before the run: not there, or left by an earlier run
NoFile == [exists |-> FALSE, header |-> "", statements |-> <<>>]
StaleFile ==
    [exists |-> TRUE, header |-> "-- Auto-generated SQL insert statements",
     statements |-> << [table |-> "subject", on_conflict |-> "DO NOTHING",
                        entries |-> << [subject_code |-> "STAT", name |-> "Statistics"] >>] >>]

\* lines 351-378: the arguments are parsed; nothing is read or written yet
InitLoad ==
    /\ ld \in { [pc |-> "load", run |-> 1, rows |-> f, classes |-> <<>>, i |-> 0,
                 c |-> ConvertStart, file0 |-> o, file |-> o, store |-> s, store1 |-> s] :
                 f \in CsvFiles, o \in {NoFile, StaleFile}, s \in Stores }
    /\ pct = Idle /\ ai = Idle /\ ep = Idle /\ ex = Idle /\ pq = Idle /\ al = Idle /\ ag = Idle

\* line 380: rows = load_classes_from_csv(input_path)
M_Load ==
    /\ ld.pc = "load"
    /\ ld' = [ld EXCEPT !.pc = "convert", !.classes = load_classes_from_csv(ld.rows),
                        !.i = 0, !.c = ConvertStart, !.file0 = ld.file]
    /\ UNCHANGED <<pct, ai, ep, ex, pq, al, ag>>

\* line 383 -> lines 111-259: one row of convert_to_sql(rows); an exception is
\* not caught anywhere and ends the script
M_ConvertRow ==
    /\ ld.pc = "convert"
    /\ ld.i < Len(ld.classes)
    /\ ld' = [ld EXCEPT !.c = ConvertRow(ld.c, ld.classes[ld.i + 1]),
                        !.i = @ + 1,
                        !.pc = IF ConvertRow(ld.c, ld.classes[ld.i + 1]).error # None
                               THEN "failed" ELSE "convert"]
    /\ UNCHANGED <<pct, ai, ep, ex, pq, al, ag>>

\* a loader that writes what it has after any row
ConversionReturned_AfterAnyRow(l) == l.i >= 0

\* line 261: return tables, once the loop of line 111 has run over every row
ConversionReturned(l) == l.i = Len(l.classes)

\* line 386: write_sql_to_file(output_path, sql_groups)
M_Write ==
    /\ ld.pc = "convert"
    /\ ConversionReturned(ld)
    /\ ld' = [ld EXCEPT !.pc = "written", !.file = write_sql_to_file(ld.c.tables)]
    /\ UNCHANGED <<pct, ai, ep, ex, pq, al, ag>>

\* the file is run against the store; after the first application the loader
\* is run on the same input again
M_Apply ==
    /\ ld.pc = "written"
    /\ ld' = IF ld.run = 1
             THEN [ld EXCEPT !.pc = "load", !.run = 2,
                             !.store = ApplySql(ld.store, ld.file.statements),
                             !.store1 = ApplySql(ld.store, ld.file.statements)]
             ELSE [ld EXCEPT !.pc = "done",
                             !.store = ApplySql(ld.store, ld.file.statements)]
    /\ UNCHANGED <<pct, ai, ep, ex, pq, al, ag>>

NextLoad ==
    \/ M_Load
    \/ M_ConvertRow
    \/ M_Write
    \/ M_Apply

SpecLoad == InitLoad /\ [][NextLoad]_vars

\* the rows convert_to_sql has gone through
Processed == SubSeq(ld.classes, 1, ld.i)

\* conversion is under way or over, and no row has raised
Converting == ld.pc \in {"convert", "written", "done"}

TableNames == {"subject", "term", "course", "instructor", "section", "grade_distribution"}

KeysDistinct(rows, key) ==
    \A j, k \in DOMAIN rows : rows[j][key] = rows[k][key] => j = k

\* C16: seeding is idempotent: the SQL generated from a file is applied to a
\* store, the loader is run on the same file again and its SQL is applied again;
\* the second run generated the same file, no insert failed, and all six tables
\* hold exactly the rows they held after the first application, none twice.
C16_SeedingIdempotent ==
    (ld.pc = "done" /\ ld.run = 2) =>
        /\ ld.file = ld.file0
        /\ ~ld.store.failed
        /\ ld.store = ld.store1
        /\ \A t \in TableNames : KeysDistinct(ld.store[t], PrimaryKey(t))

\* C16 witness: a file with entries for all six tables has been applied twice
\* to a store that already held rows under the same identifiers
C16_Witness ==
    /\ ld.pc = "done" /\ ld.run = 2
    /\ Len(ld.file.statements) = 6
    /\ Len(ld.c.tables.section) = 2
    /\ ld.store.instructor[1].name_display = "Dwight Barnette"
    /\ Len(ld.store.instructor) = 2

\* a two-digit year half is expanded with "20"
ExpandedYear(d) == IF Len(d) = 2 THEN 2000 + 10 * d[1] + d[2] ELSE DigitsInt(d)

SpringTexts == {"Spring"}
FallTexts == {"Fall", "fall"}

RECURSIVE FirstOccurrences(_)
\* the distinct values of a sequence in the order of their first occurrence
FirstOccurrences(s) ==
    IF s = <<>> THEN <<>>
    ELSE IF \E j \in 1..(Len(s) - 1) : s[j] = s[Len(s)]
         THEN FirstOccurrences(SubSeq(s, 1, Len(s) - 1))
         ELSE Append(FirstOccurrences(SubSeq(s, 1, Len(s) - 1)), s[Len(s)])

\* the position of the first occurrence of a value
FirstIndex(s, v) == CHOOSE j \in DOMAIN s : s[j] = v /\ \A k \in 1..(j - 1) : s[k] # v

\* the keys of the processed rows
SubjectKeys == [j \in DOMAIN Processed |-> Processed[j].subject_code]
InstructorKeys == [j \in DOMAIN Processed |-> Processed[j].instructor_name]
CourseKeys == [j \in DOMAIN Processed |-> <<Processed[j].subject_code, Processed[j].course_number>>]
SectionKeys == [j \in DOMAIN Processed |-> Processed[j].crn[1]]

\* the term of a row, as C17 gives it
TermOf(cls) ==
    IF cls.term_label_raw \in SpringTexts
    THEN [term_id |-> ExpandedYear(cls.acad_year_raw[2]) * 100 + 1,
          label |-> <<"Spring", ExpandedYear(cls.acad_year_raw[2])>>]
    ELSE [term_id |-> ExpandedYear(cls.acad_year_raw[1]) * 100 + 2,
          label |-> <<"Fall", ExpandedYear(cls.acad_year_raw[1])>>]

TermKeys == [j \in DOMAIN Processed |-> TermOf(Processed[j]).term_id]

OrZero(x) == IF x = <<>> THEN 0 ELSE x[1]

\* C18: after any sequence of rows each table holds exactly one tuple per
\* distinct key (subject code; term_id; instructor name; (subject code, course
\* number); section reference number for section and for grade_distribution),
\* in the order of first occurrence, the tuple carries the values of the first
\* row with that key, and instructor and course ids are 1, 2, 3, ... in that order.
C18_Deduplication ==
    Converting =>
        LET T == ld.c.tables IN
        /\ [j \in DOMAIN T.subject |-> T.subject[j].subject_code] = FirstOccurrences(SubjectKeys)
        /\ [j \in DOMAIN T.term |-> T.term[j].term_id] = FirstOccurrences(TermKeys)
        /\ \A j \in DOMAIN T.term :
              LET first == Processed[FirstIndex(TermKeys, T.term[j].term_id)]
              IN /\ T.term[j].label = TermOf(first).label
                 /\ DigitsInt(T.term[j].academic_year[1]) = ExpandedYear(first.acad_year_raw[1])
                 /\ DigitsInt(T.term[j].academic_year[2]) = ExpandedYear(first.acad_year_raw[2])
        /\ Len(T.instructor) = Len(FirstOccurrences(InstructorKeys))
        /\ \A j \in DOMAIN T.instructor :
              /\ T.instructor[j].instructor_id = j
              /\ T.instructor[j].name_display = sql_escape(FirstOccurrences(InstructorKeys)[j])
        /\ Len(T.course) = Len(FirstOccurrences(CourseKeys))
        /\ \A j \in DOMAIN T.course :
              LET key == FirstOccurrences(CourseKeys)[j]
                  first == Processed[FirstIndex(CourseKeys, key)]
              IN /\ T.course[j].course_id = j
                 /\ T.course[j].subject_code = key[1]
                 /\ T.course[j].course_number = key[2]
                 /\ T.course[j].title = first.course_title
                 /\ T.course[j].credits = first.credits
                 /\ T.course[j].level = (IF key[2] = "2104" THEN "UG" ELSE "GR")
        /\ [j \in DOMAIN T.section |-> T.section[j].section_id] = FirstOccurrences(SectionKeys)
        /\ [j \in DOMAIN T.grade_distribution |-> T.grade_distribution[j].section_id]
                = FirstOccurrences(SectionKeys)
        /\ \A j \in DOMAIN T.section :
              LET first == Processed[FirstIndex(SectionKeys, T.section[j].section_id)]
              IN /\ T.section[j].term_id = TermOf(first).term_id
                 /\ T.section[j].course_id =
                        FirstIndex(FirstOccurrences(CourseKeys),
                                   <<first.subject_code, first.course_number>>)
                 /\ T.section[j].instructor_id =
                        FirstIndex(FirstOccurrences(InstructorKeys), first.instructor_name)
                 /\ T.section[j].credits = first.credits
                 /\ T.section[j].graded_enrollment = OrZero(first.graded_enrollment)
        /\ \A j \in DOMAIN T.grade_distribution :
              LET first == Processed[FirstIndex(SectionKeys, T.grade_distribution[j].section_id)]
              IN /\ T.grade_distribution[j].gpa = OrZero(first.gpa)
                 /\ T.grade_distribution[j].withdraws = OrZero(first.withdraws)
                 /\ T.grade_distribution[j].graded_enrollment = OrZero(first.graded_enrollment)

\* C18 witness: three rows, the third repeating the section reference number of
\* the first with another subject, course and title: one section of the first
\* row's course, two courses, one instructor
C18_Witness ==
    /\ ld.pc = "convert" /\ ld.i = 3
    /\ Processed = <<CsvRow1, CsvRow2, CsvRow3>>
    /\ Len(ld.c.tables.section) = 2
    /\ ld.c.tables.section[1].course_id = 1
    /\ Len(ld.c.tables.course) = 2
    /\ ld.c.tables.course[1].title = "Problem Solving"
    /\ Len(ld.c.tables.instructor) = 2

\* C19: every section tuple references a course_id, a term_id and an
\* instructor_id that the course, term and instructor tables of the same run
\* hold, and the section ids are the grade_distribution ids.
C19_SectionReferences ==
    LET T == ld.c.tables IN
    /\ \A j \in DOMAIN T.section :
          /\ HasKey(T.course, "course_id", T.section[j].course_id)
          /\ HasKey(T.term, "term_id", T.section[j].term_id)
          /\ HasKey(T.instructor, "instructor_id", T.section[j].instructor_id)
    /\ { T.section[j].section_id : j \in DOMAIN T.section }
          = { T.grade_distribution[j].section_id : j \in DOMAIN T.grade_distribution }
    /\ ld.pc \in {"written", "done"} =>
          \A k \in DOMAIN ld.file.statements :
              ld.file.statements[k].entries = T[ld.file.statements[k].table]

\* C19 witness: a written file with two sections of the same course
C19_Witness ==
    /\ ld.pc = "written"
    /\ Len(ld.c.tables.section) = 2
    /\ ld.c.tables.section[1].course_id = ld.c.tables.section[2].course_id
    /\ Len(ld.c.tables.grade_distribution) = 2
    /\ \E k \in DOMAIN ld.file.statements : ld.file.statements[k].table = "section"

\* C20: a run that meets a fatal row (fewer than 23 columns, a season other
\* than Spring and Fall, a malformed academic year) at any position ends with
\* the error and the output file as it was before the run; while rows are
\* converted the file is untouched, and it is written only when every row has
\* been converted without an error.
C20_NoPartialOutput ==
    /\ ld.pc = "failed" => (ld.c.error # None /\ ld.file = ld.file0)
    /\ ld.pc = "convert" => ld.file = ld.file0
    /\ ld.pc = "written" => (ld.i = Len(ld.classes) /\ ld.c.error = None)
    /\ (ld.pc \in {"convert", "failed"} /\ ld.i >= 1
            /\ ld.classes[ld.i] \in {CsvRowShort, CsvRowSummer, CsvRowBadYear})
         => ld.pc = "failed"

\* C20 witness: the third row is the fatal one, and the file an earlier run
\* left is still there unchanged
C20_Witness ==
    /\ ld.pc = "failed" /\ ld.i = 3
    /\ ld.classes[3] = CsvRowBadYear
    /\ ld.file0 = StaleFile /\ ld.file = StaleFile

\* the academic year of a term tuple spans two consecutive years
ConsecutiveYears(term) ==
    DigitsInt(term.academic_year[2]) = DigitsInt(term.academic_year[1]) + 1

\* where a term lies in time: the fall of academic year S-E comes first, its
\* spring second, then the fall of the next academic year
TimePosition(term) ==
    2 * DigitsInt(term.academic_year[1]) + (IF term.label[1] = "Spring" THEN 1 ELSE 0)

\* C30: the term identifiers are ordered as the terms are in time: for any two
\* term tuples with consecutive-year academic years, term_id(a) < term_id(b)
\* exactly when term a is earlier than term b.
C30_TermIdsChronological ==
    ld.pc # "idle" =>
        \A a \in Range(ld.c.tables.term) : \A b \in Range(ld.c.tables.term) :
            (ConsecutiveYears(a) /\ ConsecutiveYears(b)) =>
                (a.term_id < b.term_id <=> TimePosition(a) < TimePosition(b))

\* C30 witness: Fall of 2022-23, Spring of 2022-2023 and Fall of 2023-24 were
\* converted to 202202 < 202301 < 202302
C30_Witness ==
    /\ ld.pc = "written"
    /\ { <<t.term_id, t.label>> : t \in Range(ld.c.tables.term) }
          = { <<202202, <<"Fall", 2022>> >>, <<202301, <<"Spring", 2023>> >>,
              <<202302, <<"Fall", 2023>> >> }

====
